---- MODULE Spec2Model ----
(***************************************************************************)
(* State-machine model of the VaultOS-RS encrypted storage engine:        *)
(*   kernel/src/db/btree.rs      order-64 B-tree index                     *)
(*   kernel/src/db/database.rs   schema registry, Encrypt-then-MAC engine  *)
(*   kernel/src/db/query.rs      SQL-subset lexer, parser and executor     *)
(*   kernel/src/storage/page_io.rs  node / record page codec               *)
(*                                                                         *)
(* Arrays keep the source's 0-based indexing: an array of length n is a   *)
(* function on 0..n-1, and slots beyond num_keys keep their stale content  *)
(* exactly as the code leaves them.  Raw pointers are modelled by the      *)
(* value they point to; the null pointer is NullPtr / NullNode.            *)
(***************************************************************************)
EXTENDS Integers, Sequences, FiniteSets, TLC

\* ------------------------------------------------------------------------
\* Bounds of the model
\* ------------------------------------------------------------------------

\* btree.rs:6 sets BTREE_ORDER = 64.  The model runs the same code at a
\* scaled-down order so that splits, full nodes and full parents are reached
\* with a handful of keys; every index bound below is derived from it exactly
\* as in the source.
BTREE_ORDER == 5

\* Keys of the general B-tree specification are drawn from 1..MaxKey.
MaxKey == 5

\* The general B-tree specification runs at most MaxOps calls.
MaxOps == 7

\* Keys of the ascending-insert specification are drawn from 1..MaxAscKey.
MaxAscKey == 15
MaxDbOps == 3
MaxSqlOps == 3
MaxRowKey == 4
MaxMasterKey == 1
MaxIv == 2
MaxDraws == 1
MaxPid == 1
MaxTick == 1
\* blocks of the device
NumBlocks == 4
\* pages of the longest record written
MaxPages == 3
\* calls made in a behaviour of the page specification
MaxPageOps == 3
\* page writes and frees in a run that writes nodes and records to new blocks
MaxCowOps == 4
\* blocks of the device that hold pages the kernel did not write
MaxLoadedBlocks == 2
\* calls and alterations in a behaviour of the tamper specification
MaxTamperOps == 3
\* statements executed on the object table in a run
MaxRowOps == 3
\* calls in a behaviour of the re-keying specification
MaxRekeyOps == 4
\* calls that register tables in a run
MaxTableOps == 4
\* statements in a run of the GRANT and REVOKE specification
MaxGrantOps == 3
\* The reserved bytes that end a node page (2560 of the 4096 in the source)
NodeReserved == 8
\* Calls and byte changes in one run of the node page operations
MaxNodeOps == 3
\* btree_insert calls in a run that grows a tree at both ends
MaxGrowOps == 14
\* btree_split_child calls in a run
MaxSplitOps == 2
\* match_field calls in a run
MaxMatchOps == 1
\* calls in a run of inserts with fresh row ids, deletes and updates
MaxCountOps == 5
\* btree_insert calls and flushes in a run on a persisted tree
MaxFlushOps == 6

\* ------------------------------------------------------------------------
\* kernel/src/db/btree.rs
\* ------------------------------------------------------------------------

BTREE_MAX_KEYS == BTREE_ORDER - 1
BTREE_MIN_KEYS == (BTREE_ORDER \div 2) - 1

KeyIdx   == 0..(BTREE_MAX_KEYS - 1)
ChildIdx == 0..(BTREE_ORDER - 1)

\* core::ptr::null_mut() for a value pointer and for a node pointer
NullPtr  == [tag |-> "null"]
NullNode == [tag |-> "nullnode"]

\* BtreeNode::new
BtreeNode_new(is_leaf) ==
    [ keys       |-> [i \in KeyIdx |-> 0],
      values     |-> [i \in KeyIdx |-> NullPtr],
      children   |-> [i \in ChildIdx |-> NullNode],
      num_keys   |-> 0,
      is_leaf    |-> is_leaf,
      disk_lba   |-> 0,
      value_lbas |-> [i \in KeyIdx |-> 0],
      child_lbas |-> [i \in ChildIdx |-> 0],
      dirty      |-> TRUE ]

\* btree_init
btree_init(table_id) ==
    [ root |-> BtreeNode_new(TRUE), count |-> 0, table_id |-> table_id ]

SetMax(S) == CHOOSE x \in S : \A y \in S : y <= x
SetMin(S) == CHOOSE x \in S : \A y \in S : x <= y

\* The value of i when `while i < n.num_keys && key > n.keys[i] { i += 1 }`
\* (started at 0) ends.
ScanUp(n, key) ==
    SetMin({i \in 0..(n.num_keys - 1) : ~(key > n.keys[i])} \cup {n.num_keys})

\* The value of i when `while i >= 0 && key < n.keys[i] { ... i -= 1 }`
\* (started at num_keys - 1) ends.
ScanDown(n, key) ==
    SetMax({i \in 0..(n.num_keys - 1) : ~(key < n.keys[i])} \cup {-1})

\* btree_search_node
RECURSIVE btree_search_node(_, _)
btree_search_node(node, key) ==
    IF node = NullNode THEN NullPtr
    ELSE LET i == ScanUp(node, key)
         IN  IF i < node.num_keys /\ key = node.keys[i] THEN node.values[i]
             ELSE IF node.is_leaf THEN NullPtr
             ELSE btree_search_node(node.children[i], key)

\* btree_search
btree_search(tree, key) == btree_search_node(tree.root, key)

\* `let mid = (BTREE_MAX_KEYS / 2) as u32` of btree_split_child: the slot of
\* the key that moves up
split_mid_last == BTREE_MAX_KEYS - 1
split_mid_below == (BTREE_MAX_KEYS \div 2) - 1
split_mid == BTREE_MAX_KEYS \div 2

\* btree_split_child.  The caller passes a child with num_keys > mid (a full
\* child), so nn.num_keys does not underflow.
btree_split_child(p, index) ==
    IF p.num_keys >= BTREE_MAX_KEYS THEN p
    ELSE
    LET child == p.children[index]
        mid   == split_mid
        nnk   == child.num_keys - mid - 1
        nn0   == BtreeNode_new(child.is_leaf)
        nn    == [nn0 EXCEPT
                    !.num_keys   = nnk,
                    !.keys       = [j \in KeyIdx |->
                                      IF j < nnk THEN child.keys[mid + 1 + j] ELSE 0],
                    !.values     = [j \in KeyIdx |->
                                      IF j < nnk THEN child.values[mid + 1 + j] ELSE NullPtr],
                    !.value_lbas = [j \in KeyIdx |->
                                      IF j < nnk THEN child.value_lbas[mid + 1 + j] ELSE 0],
                    !.children   = [j \in ChildIdx |->
                                      IF ~child.is_leaf /\ j <= nnk
                                      THEN child.children[mid + 1 + j] ELSE NullNode],
                    !.child_lbas = [j \in ChildIdx |->
                                      IF ~child.is_leaf /\ j <= nnk
                                      THEN child.child_lbas[mid + 1 + j] ELSE 0],
                    !.dirty      = TRUE]
        child2 == [child EXCEPT !.num_keys = mid, !.dirty = TRUE]
        moved(j)  == j > index /\ j <= p.num_keys          \* keys[j] = keys[j-1]
        cmoved(j) == j > index + 1 /\ j <= p.num_keys + 1  \* children[j] = children[j-1]
    IN  [p EXCEPT
           !.keys       = [j \in KeyIdx |->
                             IF j = index THEN child.keys[mid]
                             ELSE IF moved(j) THEN p.keys[j - 1] ELSE p.keys[j]],
           !.values     = [j \in KeyIdx |->
                             IF j = index THEN child.values[mid]
                             ELSE IF moved(j) THEN p.values[j - 1] ELSE p.values[j]],
           !.value_lbas = [j \in KeyIdx |->
                             IF j = index THEN child.value_lbas[mid]
                             ELSE IF moved(j) THEN p.value_lbas[j - 1] ELSE p.value_lbas[j]],
           !.children   = [j \in ChildIdx |->
                             IF j = index THEN child2
                             ELSE IF j = index + 1 THEN nn
                             ELSE IF cmoved(j) THEN p.children[j - 1] ELSE p.children[j]],
           !.child_lbas = [j \in ChildIdx |->
                             IF j = index + 1 THEN 0
                             ELSE IF cmoved(j) THEN p.child_lbas[j - 1] ELSE p.child_lbas[j]],
           !.num_keys   = p.num_keys + 1,
           !.dirty      = TRUE]

\* Result of an insert step: the node as the step leaves it, and whether the
\* step panicked (an array index out of bounds, or a null child dereferenced).
Done(n)    == [node |-> n, panic |-> FALSE]
Panics(n)  == [node |-> n, panic |-> TRUE]

\* `n.values[i] = value; n.value_lbas[i] = 0; n.dirty = true`
SetSlot(n, i, value) ==
    [n EXCEPT !.values[i] = value, !.value_lbas[i] = 0, !.dirty = TRUE]

\* btree_insert_nonfull
RECURSIVE btree_insert_nonfull(_, _, _)
btree_insert_nonfull(n, key, value) ==
    LET stop == ScanDown(n, key)
    IN
    IF n.is_leaf THEN
        \* the shifting loop writes keys[i + 1] for i = num_keys-1 .. stop+1
        IF stop < n.num_keys - 1 /\ n.num_keys >= BTREE_MAX_KEYS THEN Panics(n)
        ELSE
        LET sh(j) == j > stop + 1 /\ j <= n.num_keys
            s == [n EXCEPT
                    !.keys       = [j \in KeyIdx |-> IF sh(j) THEN n.keys[j - 1] ELSE n.keys[j]],
                    !.values     = [j \in KeyIdx |-> IF sh(j) THEN n.values[j - 1] ELSE n.values[j]],
                    !.value_lbas = [j \in KeyIdx |->
                                      IF sh(j) THEN n.value_lbas[j - 1] ELSE n.value_lbas[j]]]
        IN  IF stop >= 0 /\ s.keys[stop] = key THEN Done(SetSlot(s, stop, value))
            ELSE IF stop + 1 >= BTREE_MAX_KEYS THEN Panics(s)
            ELSE Done([SetSlot(s, stop + 1, value) EXCEPT
                          !.keys[stop + 1] = key,
                          !.num_keys = n.num_keys + 1])
    ELSE
        IF stop >= 0 /\ n.keys[stop] = key THEN Done(SetSlot(n, stop, value))
        ELSE
        LET i == stop + 1
            into(m, c, r) == [node |-> [m EXCEPT !.children[c] = r.node], panic |-> r.panic]
            descend(m, c) == into(m, c, btree_insert_nonfull(m.children[c], key, value))
        IN  IF n.children[i] = NullNode THEN Panics(n)
            ELSE IF n.children[i].num_keys = BTREE_MAX_KEYS THEN
                LET n2 == btree_split_child(n, i)
                IN  IF i >= BTREE_MAX_KEYS THEN Panics(n2)       \* n.keys[i]
                    ELSE
                    LET i2 == IF key > n2.keys[i] THEN i + 1 ELSE i
                    IN  IF i2 >= BTREE_MAX_KEYS THEN Panics(n2)  \* n.keys[i]
                        ELSE IF key = n2.keys[i2] THEN Done(SetSlot(n2, i2, value))
                        ELSE IF n2.children[i2] = NullNode THEN Panics(n2)
                        ELSE descend(n2, i2)
            ELSE descend(n, i)

\* btree_insert: [tree, panic]; tree.count is incremented on every return.
btree_insert(tree, key, value) ==
    LET root == tree.root
    IN
    IF root.num_keys = BTREE_MAX_KEYS THEN
        LET nr0 == BtreeNode_new(FALSE)
            nr1 == [nr0 EXCEPT !.children[0] = root, !.child_lbas[0] = root.disk_lba]
            new_root == btree_split_child(nr1, 0)
            i == IF key > new_root.keys[0] THEN 1 ELSE 0
        IN  IF key = new_root.keys[0]
            THEN [tree  |-> [tree EXCEPT !.root = [new_root EXCEPT !.values[0] = value],
                                         !.count = tree.count + 1],
                  panic |-> FALSE]
            ELSE LET below(r) ==
                         [tree  |-> [tree EXCEPT
                                       !.root  = [new_root EXCEPT !.children[i] = r.node],
                                       !.count = IF r.panic THEN tree.count
                                                 ELSE tree.count + 1],
                          panic |-> r.panic]
                 IN  below(btree_insert_nonfull(new_root.children[i], key, value))
    ELSE
        LET at_root(r) ==
                [tree  |-> [tree EXCEPT !.root  = r.node,
                                        !.count = IF r.panic THEN tree.count
                                                  ELSE tree.count + 1],
                 panic |-> r.panic]
        IN  at_root(btree_insert_nonfull(root, key, value))

\* The loop body of btree_delete from `node` down: [node, ret]; ret = 0 when
\* the key was found (tree.count is then decremented), -1 otherwise.
RECURSIVE btree_delete_node(_, _)
btree_delete_node(n, key) ==
    IF n = NullNode THEN [node |-> n, ret |-> -1]
    ELSE
    LET i == ScanUp(n, key)
    IN  IF i < n.num_keys /\ key = n.keys[i] THEN
            IF n.is_leaf THEN
                LET sh(j) == j >= i /\ j < n.num_keys - 1
                IN  [node |-> [n EXCEPT
                        !.keys       = [j \in KeyIdx |-> IF sh(j) THEN n.keys[j + 1] ELSE n.keys[j]],
                        !.values     = [j \in KeyIdx |->
                                          IF sh(j) THEN n.values[j + 1] ELSE n.values[j]],
                        !.value_lbas = [j \in KeyIdx |->
                                          IF sh(j) THEN n.value_lbas[j + 1] ELSE n.value_lbas[j]],
                        !.num_keys   = n.num_keys - 1,
                        !.dirty      = TRUE],
                     ret |-> 0]
            ELSE [node |-> [n EXCEPT !.values[i] = NullPtr,
                                     !.value_lbas[i] = 0,
                                     !.dirty = TRUE],
                  ret |-> 0]
        ELSE IF n.is_leaf THEN [node |-> n, ret |-> -1]
        ELSE LET r == btree_delete_node(n.children[i], key)
             IN  [node |-> [n EXCEPT !.children[i] = r.node], ret |-> r.ret]

\* btree_delete: [tree, ret, underflow].  `tree.count -= 1` on a count of 0
\* overflows the u64: a build with overflow checks panics, one without wraps
\* to 2^64 - 1, which the model writes as -1 (its two's-complement reading).
btree_delete(tree, key) ==
    LET r == btree_delete_node(tree.root, key)
    IN  IF r.ret = 0
        THEN [tree |-> [tree EXCEPT !.root = r.node, !.count = tree.count - 1],
              ret |-> 0, underflow |-> (tree.count = 0)]
        ELSE [tree |-> tree, ret |-> -1, underflow |-> FALSE]

\* btree_scan_node: the sequence of callback(key, value) invocations.
RECURSIVE btree_scan_node(_)
btree_scan_node(node) ==
    IF node = NullNode THEN <<>>
    ELSE
    LET RECURSIVE upto(_)
        upto(i) ==
            IF i = 0 THEN <<>>
            ELSE upto(i - 1)
                 \o (IF ~node.is_leaf THEN btree_scan_node(node.children[i - 1]) ELSE <<>>)
                 \o (IF node.values[i - 1] # NullPtr
                     THEN <<[key |-> node.keys[i - 1], value |-> node.values[i - 1]]>>
                     ELSE <<>>)
    IN  upto(node.num_keys)
        \o (IF ~node.is_leaf THEN btree_scan_node(node.children[node.num_keys]) ELSE <<>>)

\* btree_scan
btree_scan(tree) == btree_scan_node(tree.root)

\* Number of key slots in use in the subtree of `node` (live or tombstoned).
RECURSIVE NumSlots(_)
NumSlots(node) ==
    IF node = NullNode THEN 0
    ELSE LET RECURSIVE kids(_)
             kids(i) == IF i < 0 THEN 0 ELSE kids(i - 1) + NumSlots(node.children[i])
         IN  node.num_keys + (IF node.is_leaf THEN 0 ELSE kids(node.num_keys))

\* All keys stored in the subtree of `node`, in traversal order, tombstones
\* included.
RECURSIVE SlotKeys(_)
SlotKeys(node) ==
    IF node = NullNode THEN <<>>
    ELSE
    LET RECURSIVE upto(_)
        upto(i) ==
            IF i = 0 THEN <<>>
            ELSE upto(i - 1)
                 \o (IF ~node.is_leaf THEN SlotKeys(node.children[i - 1]) ELSE <<>>)
                 \o <<node.keys[i - 1]>>
    IN  upto(node.num_keys)
        \o (IF ~node.is_leaf THEN SlotKeys(node.children[node.num_keys]) ELSE <<>>)

\* ------------------------------------------------------------------------
\* Strings.  A kernel byte string is a string; a byte is a string of length 1.
\* ------------------------------------------------------------------------

Ch(s, i) == SubSeq(s, i, i)
CharsOf(s) == {Ch(s, i) : i \in 1..Len(s)}
IndexIn(s, c) == CHOOSE i \in 1..Len(s) : Ch(s, i) = c
UpperCase == "ABCDEFGHIJKLMNOPQRSTUVWXYZ"
LowerCase == "abcdefghijklmnopqrstuvwxyz"
Digits == "0123456789"
UpperSet == CharsOf(UpperCase)
LowerSet == CharsOf(LowerCase)
DigitSet == CharsOf(Digits)
Min2(a, b) == IF a < b THEN a ELSE b
Truncate(s, n) == SubSeq(s, 1, Min2(Len(s), n))

\* ca + 32 for 'A'..'Z'
LowerOf == [c \in UpperSet |-> Ch(LowerCase, IndexIn(UpperCase, c))]
ToLower(c) == IF c \in UpperSet THEN LowerOf[c] ELSE c

str_eq_ignore_case(a, b) ==
    /\ Len(a) = Len(b)
    /\ \A i \in 1..Len(a) : ToLower(Ch(a, i)) = ToLower(Ch(b, i))

\* ------------------------------------------------------------------------
\* Shared types and limits (crate vaultos_shared), schemas, records
\* ------------------------------------------------------------------------

\* Limits of vaultos_shared::db_types, scaled
MAX_TABLES == 7
MAX_COLUMNS == 7
MAX_RECORD_SIZE == 112
MAX_STR_LEN == 64
MAX_COLUMN_NAME == 16
MAX_WHERE_CONDS == 2
MAX_INSERT_VALS == 4

TABLE_ID_SYSTEM == 0
AES_BLOCK_SIZE == 16

VOS_OK == "VOS_OK"
VOS_ERR_INVAL == "VOS_ERR_INVAL"
VOS_ERR_FULL == "VOS_ERR_FULL"
VOS_ERR_NOTFOUND == "VOS_ERR_NOTFOUND"
VOS_ERR_SYNTAX == "VOS_ERR_SYNTAX"
VOS_ERR_IO == "VOS_ERR_IO"

None == [tag |-> "none"]
TableIds == 0..(MAX_TABLES - 1)
ColIdx == 0..(MAX_COLUMNS - 1)

make_col(name, col_type, pk, nn) ==
    [name |-> Truncate(name, MAX_COLUMN_NAME - 1), col_type |-> col_type,
     primary_key |-> pk, not_null |-> nn]

ColumnDef_zeroed == [name |-> "", col_type |-> "U64", primary_key |-> FALSE, not_null |-> FALSE]

\* TableSchema::zeroed followed by the assignments of a registration block
TableSchema(name, system_table, cols) ==
    [name |-> name, table_id |-> 0, encrypted |-> TRUE,
     system_table |-> system_table, column_count |-> Len(cols),
     columns |-> [i \in ColIdx |-> IF i < Len(cols) THEN cols[i + 1] ELSE ColumnDef_zeroed]]

SystemSchemas ==
    << TableSchema("SystemTable", TRUE,
         << make_col("id", "U64", TRUE, FALSE), make_col("key", "Str", FALSE, TRUE),
            make_col("value", "Str", FALSE, FALSE), make_col("created", "U64", FALSE, FALSE) >>),
       TableSchema("ProcessTable", TRUE,
         << make_col("pid", "U64", TRUE, FALSE), make_col("name", "Str", FALSE, FALSE),
            make_col("state", "Str", FALSE, FALSE), make_col("priority", "U32", FALSE, FALSE),
            make_col("cap_root", "U64", FALSE, FALSE), make_col("created", "U64", FALSE, FALSE) >>),
       TableSchema("CapabilityTable", TRUE,
         << make_col("cap_id", "U64", TRUE, FALSE), make_col("object_id", "U64", FALSE, FALSE),
            make_col("owner_pid", "U64", FALSE, FALSE), make_col("rights", "U32", FALSE, FALSE),
            make_col("parent_id", "U64", FALSE, FALSE), make_col("revoked", "Bool", FALSE, FALSE),
            make_col("created", "U64", FALSE, FALSE) >>),
       TableSchema("ObjectTable", FALSE,
         << make_col("obj_id", "U64", TRUE, FALSE), make_col("name", "Str", FALSE, TRUE),
            make_col("type", "Str", FALSE, FALSE), make_col("data", "Str", FALSE, FALSE),
            make_col("owner_pid", "U64", FALSE, FALSE), make_col("size", "U64", FALSE, FALSE),
            make_col("created", "U64", FALSE, FALSE) >>),
       TableSchema("MessageTable", TRUE,
         << make_col("msg_id", "U64", TRUE, FALSE), make_col("src_pid", "U64", FALSE, FALSE),
            make_col("dst_pid", "U64", FALSE, FALSE), make_col("type", "Str", FALSE, FALSE),
            make_col("payload", "Str", FALSE, FALSE), make_col("delivered", "Bool", FALSE, FALSE) >>),
       TableSchema("AuditTable", TRUE,
         << make_col("audit_id", "U64", TRUE, FALSE), make_col("timestamp", "U64", FALSE, FALSE),
            make_col("pid", "U64", FALSE, FALSE), make_col("action", "Str", FALSE, FALSE),
            make_col("target_id", "U64", FALSE, FALSE), make_col("result", "Str", FALSE, FALSE) >>) >>

\* Field values
FU64(v) == [t |-> "U64", v |-> v]
FU32(v) == [t |-> "U32", v |-> v]
FStr(s) == [t |-> "Str", s |-> Truncate(s, MAX_STR_LEN)]

Record_new(table_id) ==
    [row_id |-> 0, table_id |-> table_id, field_count |-> 0,
     fields |-> [i \in ColIdx |-> None]]

set_u64(rec, i, v) == [rec EXCEPT !.fields[i] = FU64(v)]
set_u32(rec, i, v) == [rec EXCEPT !.fields[i] = FU32(v)]
set_str(rec, i, s) == [rec EXCEPT !.fields[i] = FStr(s)]

\* ------------------------------------------------------------------------
\* Record codec (section 4.2 of the specification; record_serde is not part
\* of src/).  The byte sequence is kept as the sequence of its items, its
\* length is counted in bytes.
\* ------------------------------------------------------------------------

FieldSize(f) ==
    IF f = None THEN 1
    ELSE CASE f.t = "U64" -> 9
           [] f.t = "U32" -> 5
           [] f.t = "Bool" -> 2
           [] f.t = "Str" -> 3 + Len(f.s)

RECURSIVE SumSizes(_, _)
SumSizes(fields, n) ==
    IF n = 0 THEN 0 ELSE FieldSize(fields[n - 1]) + SumSizes(fields, n - 1)

\* returns the length written (0 on overflow of the buffer) and the bytes
record_serialize(rec) ==
    LET total == 16 + SumSizes(rec.fields, rec.field_count)
    IN  IF total > MAX_RECORD_SIZE
        THEN [len |-> 0, bytes |-> <<>>]
        ELSE [len |-> total,
              bytes |-> << [t |-> "row_id", v |-> rec.row_id],
                           [t |-> "table_id", v |-> rec.table_id],
                           [t |-> "field_count", v |-> rec.field_count] >>
                        \o [i \in 1..rec.field_count |-> rec.fields[i - 1]]]

record_deserialize(bytes) ==
    IF Len(bytes) < 3 \/ Len(bytes) # 3 + bytes[3].v THEN None
    ELSE [row_id |-> bytes[1].v, table_id |-> bytes[2].v, field_count |-> bytes[3].v,
          fields |-> [i \in ColIdx |-> IF i < bytes[3].v THEN bytes[4 + i] ELSE None]]

\* ------------------------------------------------------------------------
\* Cryptography (section 4.1 of the specification; crate::crypto is not part
\* of src/).  Ciphertexts and MACs are terms over their inputs.
\* ------------------------------------------------------------------------

aes_padded_size(n) == ((n \div AES_BLOCK_SIZE) + 1) * AES_BLOCK_SIZE
aes_pkcs7_pad(bytes, plain_len, padded_len) ==
    [data |-> bytes, len |-> plain_len, pad |-> padded_len - plain_len]
aes_pkcs7_unpad(buf) ==
    IF "pad" \in DOMAIN buf /\ buf.pad >= 1 /\ buf.pad <= 16 THEN buf.len ELSE 0
hmac_sha256(key, msg) == [tag |-> "hmac", key |-> key, msg |-> msg]
aes_init(key) == [tag |-> "aes", key |-> key]
hmac_ctx_init(key) == [tag |-> "hmacctx", key |-> key]
hmac_ctx_compute(ctx, msg) == hmac_sha256(ctx.key, msg)
aes_cbc_encrypt(ctx, iv, pt) == [tag |-> "cbc", key |-> ctx, iv |-> iv, pt |-> pt]
aes_cbc_decrypt(ctx, iv, ct) ==
    IF ct.tag = "cbc" /\ ct.key = ctx /\ ct.iv = iv THEN ct.pt ELSE [tag |-> "garbage"]
hmac_verify(a, b) == a = b

\* ------------------------------------------------------------------------
\* Database engine (db/database.rs).  The statics of the module are the
\* fields of a record d; `panic`, `underflow` and `dangling` record that a
\* call panicked, that tree.count underflowed, and that a freed
\* EncryptedRecord is still referenced by an index; `issued` lists the row
\* ids db_next_row_id has returned since db_init, `deleted` holds the row ids
\* db_delete_record has removed, `written` the <<table_id, iv, ciphertext,
\* mac>> that db_insert_record has stored, `key_changed` that the master key
\* was replaced by another one and the keys of the tables not derived since.
\* ------------------------------------------------------------------------

\* A scratch buffer: bytes zeroed..len-1 of data are in it, zeroes elsewhere
ZeroBuf == [data |-> <<>>, len |-> 0, zeroed |-> 0]
\* buf[..n] = data[..n]
BufWrite(buf, data, n) ==
    IF buf.zeroed < buf.len /\ buf.len > n
    THEN [data |-> <<data, buf.data>>, len |-> buf.len, zeroed |-> 0]
    ELSE [data |-> data, len |-> n, zeroed |-> 0]
\* for i in 0..n { buf[i] = 0 }
BufZero(buf, n) ==
    IF n >= buf.len THEN ZeroBuf
    ELSE [buf EXCEPT !.zeroed = IF n > buf.zeroed THEN n ELSE buf.zeroed]
\* a [u8; 32] of zeroes
ZeroMac == [tag |-> "zeroes"]

\* the statics as declared (database.rs:28-38), and after db_init
db_init ==
    [SCHEMAS        |-> [i \in TableIds |-> None],
     INDEXES        |-> [i \in TableIds |-> None],
     TABLE_AES_KEYS |-> [i \in TableIds |-> None],
     TABLE_MAC_CTXS |-> [i \in TableIds |-> None],
     TABLE_COUNT    |-> 0,
     GLOBAL_ROW_ID  |-> 1,
     MASTER_DB_KEY  |-> 0,
     panic          |-> FALSE,
     underflow      |-> FALSE,
     dangling       |-> FALSE,
     issued         |-> <<>>,
     deleted        |-> {},
     written        |-> {},
     key_changed    |-> FALSE,
     SERDE_BUF      |-> ZeroBuf,
     CRYPTO_BUF     |-> ZeroBuf]

Halted(d) == d.panic \/ d.dangling

derive_table_key(d, table_id) ==
    [d EXCEPT
       !.TABLE_AES_KEYS[table_id] = aes_init(hmac_sha256(d.MASTER_DB_KEY, <<"AES", table_id>>)),
       !.TABLE_MAC_CTXS[table_id] = hmac_ctx_init(hmac_sha256(d.MASTER_DB_KEY, <<"MAC", table_id>>))]

\* db_create_table_impl that stores the schema with the table_id it came with
db_create_table_impl_noid(d, schema) ==
    IF d.TABLE_COUNT >= MAX_TABLES THEN [db |-> d, ret |-> VOS_ERR_FULL]
    ELSE LET id == d.TABLE_COUNT
             d1 == [d EXCEPT !.SCHEMAS[id] = schema, !.INDEXES[id] = btree_init(id)]
         IN  [db |-> [derive_table_key(d1, id) EXCEPT !.TABLE_COUNT = id + 1], ret |-> VOS_OK]

db_create_table_impl(d, schema) ==
    IF d.TABLE_COUNT >= MAX_TABLES THEN [db |-> d, ret |-> VOS_ERR_FULL]
    ELSE LET id == d.TABLE_COUNT
             d1 == [d EXCEPT !.SCHEMAS[id] = [schema EXCEPT !.table_id = id],
                             !.INDEXES[id] = btree_init(id)]
             d2 == derive_table_key(d1, id)
         IN  [db |-> [d2 EXCEPT !.TABLE_COUNT = id + 1], ret |-> VOS_OK]

db_create_table(d, schema) == db_create_table_impl(d, schema)

RECURSIVE register_upto(_, _)
register_upto(d, n) ==
    IF n = 0 THEN d
    ELSE db_create_table_impl(register_upto(d, n - 1), SystemSchemas[n]).db

register_table_schemas(d) == register_upto(d, Len(SystemSchemas))

db_set_master_key(d, key) == [d EXCEPT !.MASTER_DB_KEY = key]

db_set_table_count(d, count) == [d EXCEPT !.TABLE_COUNT = count]

db_set_index(d, table_id, tree) ==
    IF table_id < MAX_TABLES THEN [d EXCEPT !.INDEXES[table_id] = tree] ELSE d

db_set_global_row_id(d, row_id) == [d EXCEPT !.GLOBAL_ROW_ID = row_id]

\* derive_table_key for the tables 0 .. n - 1
RECURSIVE rederive_upto(_, _)
rederive_upto(d, n) ==
    IF n = 0 THEN d ELSE derive_table_key(rederive_upto(d, n - 1), n - 1)

\* db_rederive_table_keys that leaves the keys as they are
db_rederive_table_keys_kept(d) == d

db_rederive_table_keys(d) == rederive_upto(d, d.TABLE_COUNT)


db_get_schema_by_name(d, name) ==
    LET hits == {i \in 0..(d.TABLE_COUNT - 1) :
                    d.SCHEMAS[i] # None /\ str_eq_ignore_case(d.SCHEMAS[i].name, name)}
    IN  IF hits = {} THEN None ELSE d.SCHEMAS[SetMin(hits)]

db_get_index(d, table_id) ==
    IF table_id >= d.TABLE_COUNT THEN None ELSE d.INDEXES[table_id]

\* a db_next_row_id that returns the counter and leaves it as it is
db_next_row_id_kept(g) == [id |-> g, next |-> g]

\* db_next_row_id on a counter value g: the id returned and the new counter
db_next_row_id(g) == [id |-> g, next |-> g + 1]

find_column_index(schema, name) ==
    LET hits == {i \in 0..(schema.column_count - 1) :
                    str_eq_ignore_case(schema.columns[i].name, name)}
    IN  IF hits = {} THEN -1 ELSE SetMin(hits)

\* db_insert_record with the IV that random_bytes draws
db_insert_record(d, table_id, rec, iv) ==
    IF Halted(d) THEN [db |-> d, ret |-> VOS_ERR_INVAL]
    ELSE IF table_id >= d.TABLE_COUNT THEN [db |-> d, ret |-> VOS_ERR_INVAL]
    ELSE
    LET ser        == record_serialize(rec)
        plain_len  == ser.len
        padded_len == aes_padded_size(plain_len)
    IN
    IF plain_len = 0 THEN [db |-> d, ret |-> VOS_ERR_INVAL]
    ELSE IF padded_len > MAX_RECORD_SIZE + 16 THEN [db |-> d, ret |-> VOS_ERR_INVAL]
    ELSE IF \/ d.TABLE_AES_KEYS[table_id] = None
            \/ d.TABLE_MAC_CTXS[table_id] = None
            \/ d.INDEXES[table_id] = None
    THEN [db  |-> [d EXCEPT !.SERDE_BUF = BufWrite(@, ser.bytes, plain_len),
                            !.CRYPTO_BUF = BufWrite(@, ser.bytes, padded_len)],
          ret |-> VOS_ERR_INVAL]
    ELSE
    LET padded == aes_pkcs7_pad(ser.bytes, plain_len, padded_len)
        ct     == aes_cbc_encrypt(d.TABLE_AES_KEYS[table_id], iv, padded)
        mac    == hmac_ctx_compute(d.TABLE_MAC_CTXS[table_id], <<iv, ct>>)
        enc    == [tag |-> "enc", row_id |-> rec.row_id, table_id |-> table_id,
                   iv |-> iv, ciphertext |-> ct, ciphertext_len |-> padded_len,
                   mac |-> mac, wrote |-> <<iv, ct, mac>>]
        stored(r) ==
            [db  |-> [d EXCEPT !.INDEXES[table_id] = r.tree, !.panic = r.panic,
                               !.written = @ \cup {<<table_id, iv, ct, mac>>},
                               !.SERDE_BUF = BufZero(BufWrite(@, ser.bytes, plain_len),
                                                     plain_len),
                               !.CRYPTO_BUF = BufZero(BufWrite(@, ser.bytes, padded_len),
                                                      padded_len)],
             ret |-> VOS_OK]
    IN  stored(btree_insert(d.INDEXES[table_id], rec.row_id, enc))

\* What a call of db_decrypt_record leaves: the record it returns, whether
\* aes_cbc_decrypt ran, and CRYPTO_BUF and computed_mac at the return.
Decrypted(rec, aes, buf, mac) ==
    [rec |-> rec, aes |-> aes, CRYPTO_BUF |-> buf, computed_mac |-> mac]

\* db_decrypt_record from the PKCS7 unpad on, buf the plaintext decrypted
decrypt_unpad(d, enc, buf) ==
    IF aes_pkcs7_unpad(buf) = 0
    THEN Decrypted(None, TRUE,
                   BufZero(BufWrite(d.CRYPTO_BUF, buf, enc.ciphertext_len),
                           enc.ciphertext_len), ZeroMac)
    ELSE Decrypted(record_deserialize(buf.data), TRUE,
                   BufZero(BufWrite(d.CRYPTO_BUF, buf, enc.ciphertext_len),
                           enc.ciphertext_len), ZeroMac)

\* a decrypt_verify that decrypts whatever the comparison of the MACs says
decrypt_verify_unchecked(d, table_id, enc, computed_mac) ==
    IF enc.ciphertext_len > MAX_RECORD_SIZE + 16
    THEN Decrypted(None, FALSE, d.CRYPTO_BUF, ZeroMac)
    ELSE IF d.TABLE_AES_KEYS[table_id] = None
    THEN Decrypted(None, FALSE, d.CRYPTO_BUF, ZeroMac)
    ELSE decrypt_unpad(d, enc,
             aes_cbc_decrypt(d.TABLE_AES_KEYS[table_id], enc.iv, enc.ciphertext))

\* db_decrypt_record from the comparison of the MACs on
decrypt_verify(d, table_id, enc, computed_mac) ==
    IF ~hmac_verify(enc.mac, computed_mac)
    THEN Decrypted(None, FALSE, d.CRYPTO_BUF, ZeroMac)
    ELSE IF enc.ciphertext_len > MAX_RECORD_SIZE + 16
    THEN Decrypted(None, FALSE, d.CRYPTO_BUF, ZeroMac)
    ELSE IF d.TABLE_AES_KEYS[table_id] = None
    THEN Decrypted(None, FALSE, d.CRYPTO_BUF, ZeroMac)
    ELSE decrypt_unpad(d, enc,
             aes_cbc_decrypt(d.TABLE_AES_KEYS[table_id], enc.iv, enc.ciphertext))

db_decrypt_run(d, table_id, encrypted_value) ==
    IF encrypted_value = NullPtr \/ table_id >= d.TABLE_COUNT
    THEN Decrypted(None, FALSE, d.CRYPTO_BUF, ZeroMac)
    ELSE IF d.TABLE_MAC_CTXS[table_id] = None
    THEN Decrypted(None, FALSE, d.CRYPTO_BUF, ZeroMac)
    ELSE decrypt_verify(d, table_id, encrypted_value,
             hmac_ctx_compute(d.TABLE_MAC_CTXS[table_id],
                              <<encrypted_value.iv, encrypted_value.ciphertext>>))

db_decrypt_record(d, table_id, encrypted_value) ==
    db_decrypt_run(d, table_id, encrypted_value).rec

\* db_get_record with what its call of db_decrypt_record leaves
db_get_run(d, table_id, row_id) ==
    IF table_id >= d.TABLE_COUNT THEN Decrypted(None, FALSE, d.CRYPTO_BUF, ZeroMac)
    ELSE IF d.INDEXES[table_id] = None THEN Decrypted(None, FALSE, d.CRYPTO_BUF, ZeroMac)
    ELSE db_decrypt_run(d, table_id, btree_search(d.INDEXES[table_id], row_id))

db_get_record(d, table_id, row_id) == db_get_run(d, table_id, row_id).rec

\* values the index still points to
LiveValues(tree) == LET s == btree_scan(tree) IN {s[i].value : i \in 1..Len(s)}

\* a db_delete_record that deletes without looking the row up first
db_delete_record_unsearched(d, table_id, row_id) ==
    IF Halted(d) THEN [db |-> d, ret |-> VOS_ERR_INVAL]
    ELSE IF table_id >= d.TABLE_COUNT THEN [db |-> d, ret |-> VOS_ERR_INVAL]
    ELSE IF d.INDEXES[table_id] = None THEN [db |-> d, ret |-> VOS_ERR_INVAL]
    ELSE LET r == btree_delete(d.INDEXES[table_id], row_id)
         IN  [db  |-> [d EXCEPT !.INDEXES[table_id] = r.tree,
                                !.underflow = @ \/ r.underflow,
                                !.deleted = @ \cup {row_id}],
              ret |-> IF r.ret = 0 THEN VOS_OK ELSE VOS_ERR_NOTFOUND]

db_delete_record(d, table_id, row_id) ==
    IF Halted(d) THEN [db |-> d, ret |-> VOS_ERR_INVAL]
    ELSE IF table_id >= d.TABLE_COUNT THEN [db |-> d, ret |-> VOS_ERR_INVAL]
    ELSE IF d.INDEXES[table_id] = None THEN [db |-> d, ret |-> VOS_ERR_INVAL]
    ELSE
    LET tree    == d.INDEXES[table_id]
        enc_ptr == btree_search(tree, row_id)
    IN  IF enc_ptr = NullPtr THEN [db |-> d, ret |-> VOS_ERR_NOTFOUND]
        ELSE LET freed(r) ==
                     [db  |-> [d EXCEPT !.INDEXES[table_id] = r.tree,
                                        !.underflow = @ \/ r.underflow,
                                        !.deleted = @ \cup {row_id},
                                        !.dangling = enc_ptr \in LiveValues(r.tree)],
                      ret |-> VOS_OK]
             IN  freed(btree_delete(tree, row_id))

db_update_encrypted(d, table_id, row_id, modified, iv) ==
    IF table_id >= d.TABLE_COUNT THEN [db |-> d, ret |-> VOS_ERR_INVAL]
    ELSE LET del == db_delete_record(d, table_id, row_id)
         IN  IF del.ret # VOS_OK THEN del
             ELSE db_insert_record(del.db, table_id,
                                   [modified EXCEPT !.row_id = row_id, !.table_id = table_id],
                                   iv)

\* n-th IV that random_bytes draws during one call
Draw(rnd, n) == rnd[((n - 1) % Len(rnd)) + 1]

\* One boot-metadata block of db_insert_boot_metadata
BootRecord(d, key, value, iv) ==
    LET n    == db_next_row_id(d.GLOBAL_ROW_ID)
        d1   == [d EXCEPT !.GLOBAL_ROW_ID = n.next, !.issued = Append(@, n.id)]
        rec0 == [Record_new(TABLE_ID_SYSTEM) EXCEPT !.row_id = n.id,
                                                  !.table_id = TABLE_ID_SYSTEM,
                                                  !.field_count = 4]
        rec  == set_u64(set_str(set_str(set_u64(rec0, 0, n.id), 1, key), 2, value), 3, 0)
    IN  db_insert_record(d1, TABLE_ID_SYSTEM, rec, iv).db

\* db_insert_boot_metadata with the first two blocks exchanged
db_insert_boot_metadata_swapped(d, rnd) ==
    BootRecord(BootRecord(BootRecord(d, "os.version", "0.1.0", Draw(rnd, 1)),
                          "os.name", "VaultOS", Draw(rnd, 2)),
               "os.philosophy", "Everything is a database and all data is confidential",
               Draw(rnd, 3))

db_insert_boot_metadata(d, rnd) ==
    BootRecord(BootRecord(BootRecord(d, "os.name", "VaultOS", Draw(rnd, 1)),
                          "os.version", "0.1.0", Draw(rnd, 2)),
               "os.philosophy", "Everything is a database and all data is confidential",
               Draw(rnd, 3))

db_init_system_tables(d, rnd) == db_insert_boot_metadata(register_table_schemas(d), rnd)

\* db_register_system_tables that inserts the boot metadata as a cold boot does
db_register_system_tables_seeded(d) ==
    db_insert_boot_metadata(register_table_schemas(d),
                            [k \in 1..MaxDraws |-> [tag |-> "iv", n |-> 1]])

\* Warm boot: the schemas registered and the keys derived, no data inserted
db_register_system_tables(d) == register_table_schemas(d)

\* ------------------------------------------------------------------------
\* Query lexer (db/query.rs).  Parser = [input, pos, current]; pos counts
\* bytes from 0; current = [ttype, value] is the Token.
\* ------------------------------------------------------------------------

Ascii ==
    " !#$%&'()*+,-./0123456789:;<=>?@ABCDEFGHIJKLMNOPQRSTUVWXYZ[]^_abcdefghijklmnopqrstuvwxyz{|}~"
AsciiSet == CharsOf(Ascii)
\* rank of a byte in ASCII order (order-preserving on the bytes of Ascii)
OrdOf == [c \in AsciiSet |-> IndexIn(Ascii, c)]
Ord(c) == IF c \in AsciiSet THEN OrdOf[c] ELSE 0

is_space(c) == c \in {" ", "\t", "\n", "\r"}
is_digit(c) == c \in DigitSet
is_alpha(c) == c \in LowerSet \/ c \in UpperSet
is_alnum(c) == is_alpha(c) \/ is_digit(c)
\* the byte classes the lexer's loops test
InClass(cls, c) ==
    CASE cls = "space"    -> is_space(c)
      [] cls = "digit"    -> is_digit(c)
      [] cls = "ident"    -> is_alnum(c) \/ c = "_"
      [] cls = "notquote" -> c # "'"
      [] cls = "blank"    -> c = " "
      [] cls = "notblank" -> c # " "

\* byte at 0-based position pos
At(input, pos) == Ch(input, pos + 1)

\* `while pos < len && class(input[pos]) && i < max { pos += 1 }` from j
RECURSIVE RunFrom(_, _, _, _)
RunFrom(input, j, cls, limit) ==
    IF j >= Len(input) \/ j >= limit \/ ~InClass(cls, At(input, j)) THEN j
    ELSE RunFrom(input, j + 1, cls, limit)

\* End of the longest run of at most max bytes of class cls from pos
RunEnd(input, pos, cls, max) == RunFrom(input, pos, cls, pos + max)

Keywords ==
    << <<"SELECT", "Select">>, <<"INSERT", "Insert">>, <<"INTO", "Into">>,
       <<"DELETE", "Delete">>, <<"UPDATE", "Update">>, <<"FROM", "From">>,
       <<"WHERE", "Where">>, <<"AND", "And">>, <<"SET", "Set">>,
       <<"VALUES", "Values">>, <<"SHOW", "Show">>, <<"TABLES", "Tables">>,
       <<"DESCRIBE", "Describe">>, <<"GRANT", "Grant">>, <<"REVOKE", "Revoke">>,
       <<"ON", "On">>, <<"TO", "To">>, <<"READ", "Read">>, <<"WRITE", "Write">>,
       <<"ALL", "All">> >>

check_keyword(word) ==
    LET hits == {i \in 1..Len(Keywords) : str_eq_ignore_case(word, Keywords[i][1])}
    IN  IF hits = {} THEN "Ident" ELSE Keywords[SetMin(hits)][2]

Token_new == [ttype |-> "Eof", value |-> ""]

\* Parser::next_token behind the whitespace: the token that starts at pos
token_at(p, pos) ==
    LET input == p.input
        c     == At(input, pos)
        two(x) == c = x /\ pos + 1 < Len(input) /\ At(input, pos + 1) = "="
        Tok(ttype, n) == [p EXCEPT !.pos = pos + n, !.current.ttype = ttype]
        str(e) == [p EXCEPT !.pos = IF e < Len(input) /\ At(input, e) = "'" THEN e + 1 ELSE e,
                            !.current = [ttype |-> "StringLit",
                                         value |-> SubSeq(input, pos + 2, e)]]
        num(e) == [p EXCEPT !.pos = e,
                            !.current = [ttype |-> "Number",
                                         value |-> SubSeq(input, pos + 1, e)]]
        word(w) == [p EXCEPT !.pos = pos + Len(w),
                             !.current = [ttype |-> check_keyword(w), value |-> w]]
    IN
    IF pos >= Len(input) THEN [p EXCEPT !.pos = pos, !.current.ttype = "Eof"]
    ELSE IF c = "*" THEN [p EXCEPT !.pos = pos + 1, !.current = [ttype |-> "Star", value |-> "*"]]
    ELSE IF c = "," THEN Tok("Comma", 1)
    ELSE IF c = "(" THEN Tok("LParen", 1)
    ELSE IF c = ")" THEN Tok("RParen", 1)
    ELSE IF c = "=" THEN Tok("Eq", 1)
    ELSE IF two("!") THEN Tok("Neq", 2)
    ELSE IF two("<") THEN Tok("Le", 2)
    ELSE IF two(">") THEN Tok("Ge", 2)
    ELSE IF c = "<" THEN Tok("Lt", 1)
    ELSE IF c = ">" THEN Tok("Gt", 1)
    ELSE IF c = "'" THEN str(RunEnd(input, pos + 1, "notquote", MAX_STR_LEN))
    ELSE IF is_digit(c) THEN num(RunEnd(input, pos, "digit", 20))
    ELSE IF is_alpha(c) \/ c = "_"
    THEN word(SubSeq(input, pos + 1, RunEnd(input, pos, "ident", MAX_STR_LEN)))
    ELSE Tok("Error", 1)

next_token(p) == token_at(p, RunEnd(p.input, p.pos, "space", Len(p.input)))

Parser_new(input) == next_token([input |-> input, pos |-> 0, current |-> Token_new])

\* Parser::expect: [ok, p]
expect(p, ttype) ==
    IF p.current.ttype # ttype THEN [ok |-> FALSE, p |-> p]
    ELSE [ok |-> TRUE, p |-> next_token(p)]

\* parse_u64 on a token of at most 9 digits (no wrap-around below 2^64)
RECURSIVE parse_u64(_)
parse_u64(s) ==
    LET n == RunEnd(s, 0, "digit", Len(s))
    IN  IF n = 0 THEN 0
        ELSE parse_u64(SubSeq(s, 1, n - 1)) * 10 + (IndexIn(Digits, Ch(s, n)) - 1)

\* write_u64_to_buf: the decimal digits of val
RECURSIVE write_u64_to_buf(_)
write_u64_to_buf(val) ==
    IF val < 10 THEN Ch(Digits, val + 1)
    ELSE write_u64_to_buf(val \div 10) \o Ch(Digits, (val % 10) + 1)

\* ------------------------------------------------------------------------
\* WHERE clauses and row matching (db/query.rs)
\* ------------------------------------------------------------------------

\* parse_op: [op, p]
parse_op(p) ==
    [op |-> IF p.current.ttype \in {"Eq", "Neq", "Lt", "Gt", "Le", "Ge"}
            THEN p.current.ttype ELSE "Eq",
     p  |-> next_token(p)]

\* The loop of parse_where: [p, conds]
RECURSIVE parse_where_loop(_, _)
\* behind the value: p3 at the next token, conds2 with the condition pushed
where_next(p3, conds2) ==
    IF p3.current.ttype = "And" THEN parse_where_loop(next_token(p3), conds2)
    ELSE [p |-> p3, conds |-> conds2]
\* behind the operator o.op: o.p at the value
where_value(conds, column, o) ==
    IF o.p.current.ttype \notin {"StringLit", "Number"}
    THEN [p |-> o.p, conds |-> conds]
    ELSE where_next(next_token(o.p),
                    Append(conds, [column |-> column, op |-> o.op,
                                   value  |-> IF o.p.current.ttype = "StringLit"
                                              THEN FStr(o.p.current.value)
                                              ELSE FU64(parse_u64(o.p.current.value))]))
parse_where_loop(p, conds) ==
    IF Len(conds) >= MAX_WHERE_CONDS \/ p.current.ttype # "Ident"
    THEN [p |-> p, conds |-> conds]
    ELSE where_value(conds, Truncate(p.current.value, MAX_COLUMN_NAME - 1),
                     parse_op(next_token(p)))

parse_where(p) ==
    IF p.current.ttype # "Where" THEN [p |-> p, conds |-> <<>>]
    ELSE parse_where_loop(next_token(p), <<>>)

str_compare(a, b) ==
    LET len   == Min2(Len(a), Len(b))
        diffs == {i \in 1..len : Ch(a, i) # Ch(b, i)}
    IN  IF diffs # {}
        THEN (IF Ord(Ch(a, SetMin(diffs))) < Ord(Ch(b, SetMin(diffs))) THEN -1 ELSE 1)
        ELSE IF Len(a) < Len(b) THEN -1
        ELSE IF Len(a) > Len(b) THEN 1
        ELSE 0

\* the six comparisons on a pair of integers
CmpAll(op, a, b) ==
    CASE op = "Eq"  -> a = b
      [] op = "Neq" -> a # b
      [] op = "Lt"  -> a < b
      [] op = "Gt"  -> a > b
      [] op = "Le"  -> a <= b
      [] op = "Ge"  -> a >= b

\* the arms that support = and != only
CmpEq_else(op, a, b) == IF op = "Eq" THEN a = b ELSE a # b
CmpEq(op, a, b) ==
    CASE op = "Eq"  -> a = b
      [] op = "Neq" -> a # b
      [] OTHER      -> FALSE

match_field(field, op, cond_val) ==
    CASE field.t = "Str" /\ cond_val.t = "Str"  -> CmpAll(op, str_compare(field.s, cond_val.s), 0)
      [] field.t = "U64" /\ cond_val.t = "U64"  -> CmpAll(op, field.v, cond_val.v)
      [] field.t = "U32" /\ cond_val.t = "U64"  -> CmpAll(op, field.v, cond_val.v)
      [] field.t = "Bool" /\ cond_val.t = "U64" -> CmpEq(op, IF field.v THEN 1 ELSE 0, cond_val.v)
      [] field.t = "Bool" /\ cond_val.t = "Str" ->
            CmpEq(op, field.v, str_eq_ignore_case(cond_val.s, "true") \/ cond_val.s = "1")
      [] field.t = "U64" /\ cond_val.t = "Str"  -> CmpEq(op, field.v, parse_u64(cond_val.s))
      [] OTHER -> FALSE

\* record_matches without the test for an absent field
record_matches_absent(rec, schema, conds) ==
    \A c \in 1..Len(conds) :
        LET col_idx == find_column_index(schema, conds[c].column)
        IN  /\ col_idx >= 0
            /\ (rec.fields[col_idx] # None
                   => match_field(rec.fields[col_idx], conds[c].op, conds[c].value))

record_matches(rec, schema, conds) ==
    \A c \in 1..Len(conds) :
        LET col_idx == find_column_index(schema, conds[c].column)
        IN  /\ col_idx >= 0
            /\ rec.fields[col_idx] # None
            /\ match_field(rec.fields[col_idx], conds[c].op, conds[c].value)

\* QueryResult
\* schema: the name of the schema attached, "" for None
db_result_create == [rows |-> <<>>, error_code |-> VOS_OK, error_msg |-> "", schema |-> ""]
db_result_error(code, msg) == [db_result_create EXCEPT !.error_code = code, !.error_msg = msg]
\* the clone that db_result_add_row pushes
RowClone(row) ==
    [Record_new(row.table_id) EXCEPT !.row_id = row.row_id,
                                     !.field_count = row.field_count,
                                     !.fields = row.fields]

\* btree_scan with select_scan_callback: the rows added to the result
ScanRows(d, schema, conds) ==
    LET s    == btree_scan(d.INDEXES[schema.table_id])
        recs == [i \in 1..Len(s) |-> db_decrypt_record(d, schema.table_id, s[i].value)]
        Keep(r) == r # None /\ record_matches(r, schema, conds)
        kept == SelectSeq(recs, Keep)
    IN  [i \in 1..Len(kept) |-> RowClone(kept[i])]

set_result_msg_count(result, prefix, count) ==
    [result EXCEPT !.error_msg = prefix \o write_u64_to_buf(count)]

set_result_msg_insert(result, row_id) ==
    [result EXCEPT !.error_msg = "1 row inserted (row_id=" \o write_u64_to_buf(row_id) \o ")"]

\* ------------------------------------------------------------------------
\* Query executor (db/query.rs).  A statement returns [db, result]: the
\* statics after the call and the QueryResult.
\* ------------------------------------------------------------------------

Err(d, code, msg) == [db |-> d, result |-> db_result_error(code, msg)]

exec_show_tables(d) ==
    LET ids == SelectSeq([i \in 1..d.TABLE_COUNT |-> i - 1], LAMBDA i : d.SCHEMAS[i] # None)
        row(i) == [set_u64(set_str(set_u64(Record_new(i), 0, i), 1, d.SCHEMAS[i].name),
                           2, d.SCHEMAS[i].column_count)
                     EXCEPT !.row_id = i, !.table_id = i, !.field_count = 3]
    IN  [db_result_create EXCEPT !.rows = [k \in 1..Len(ids) |-> RowClone(row(ids[k]))],
                                 !.schema = "Tables"]

exec_describe(d, p) ==
    IF p.current.ttype # "Ident"
    THEN db_result_error(VOS_ERR_SYNTAX, "Expected table name")
    ELSE
    LET schema == db_get_schema_by_name(d, p.current.value)
        YesNo(b) == IF b THEN "YES" ELSE "NO"
        type_str(t) == CASE t = "Str" -> "STR" [] t = "Blob" -> "BLOB"
                         [] t = "Bool" -> "BOOL" [] OTHER -> t
        row(i) == LET col == schema.columns[i]
                  IN  [set_str(set_str(set_str(set_str(Record_new(0), 0, col.name),
                                               1, type_str(col.col_type)),
                                       2, YesNo(col.primary_key)),
                               3, YesNo(col.not_null))
                         EXCEPT !.row_id = i, !.field_count = 4]
    IN  IF schema = None THEN db_result_error(VOS_ERR_NOTFOUND, "Table not found")
        ELSE [db_result_create EXCEPT
                !.rows = [k \in 1..schema.column_count |-> RowClone(row(k - 1))],
                !.schema = "Columns"]

\* the column list of SELECT, which is skipped
RECURSIVE select_cols(_)
select_cols_next(p1) ==
    IF p1.current.ttype = "Comma" THEN select_cols(next_token(p1)) ELSE p1
select_cols(p) == IF p.current.ttype # "Ident" THEN p ELSE select_cols_next(next_token(p))

\* exec_select behind the WHERE clause w
select_scan(d, schema, w) ==
    IF db_get_index(d, schema.table_id) = None
    THEN db_result_error(VOS_ERR_INVAL, "No index for table")
    ELSE [db_result_create EXCEPT !.schema = schema.name,
                                  !.rows = ScanRows(d, schema, w.conds)]

\* exec_select at the table name p.current, with the schema looked up
select_table(d, schema, p) ==
    IF schema = None THEN db_result_error(VOS_ERR_NOTFOUND, "Table not found")
    ELSE select_scan(d, schema, parse_where(next_token(p)))

\* exec_select behind expect(From)
select_from(d, e) ==
    IF ~e.ok THEN db_result_error(VOS_ERR_SYNTAX, "Expected FROM")
    ELSE IF e.p.current.ttype # "Ident"
    THEN db_result_error(VOS_ERR_SYNTAX, "Expected table name")
    ELSE select_table(d, db_get_schema_by_name(d, e.p.current.value), e.p)

exec_select(d, p) ==
    select_from(d, expect(IF p.current.ttype = "Star" THEN next_token(p) ELSE select_cols(p),
                          "From"))

\* the column names of INSERT: [p, col_names]
RECURSIVE insert_cols(_, _)
insert_cols_next(p1, names2) ==
    IF p1.current.ttype = "Comma" THEN insert_cols(next_token(p1), names2)
    ELSE [p |-> p1, col_names |-> names2]
insert_cols(p, col_names) ==
    IF p.current.ttype = "Ident" /\ Len(col_names) < MAX_INSERT_VALS
    THEN insert_cols_next(next_token(p),
                          Append(col_names, Truncate(p.current.value, MAX_COLUMN_NAME - 1)))
    ELSE [p |-> p, col_names |-> col_names]

\* the values of INSERT: [rec, unknown]; unknown = "Unknown column" was hit.
\* `v as u32` is v for the numbers of the model (at most 9 digits).
RECURSIVE insert_vals(_, _, _, _, _)
\* behind a value: p1 at the next token, rec2 with the field set
insert_vals_next(p1, rec2, val_idx, col_names, schema) ==
    IF p1.current.ttype = "Comma"
    THEN insert_vals(next_token(p1), rec2, val_idx + 1, col_names, schema)
    ELSE [rec |-> rec2, unknown |-> FALSE]
\* the field of column ci set from the token tok
insert_set(rec, ci, tok, schema) ==
    IF tok.ttype = "StringLit" THEN set_str(rec, ci, tok.value)
    ELSE IF schema.columns[ci].col_type = "U64" THEN set_u64(rec, ci, parse_u64(tok.value))
    ELSE IF schema.columns[ci].col_type = "U32" THEN set_u32(rec, ci, parse_u64(tok.value))
    ELSE set_str(rec, ci, tok.value)
\* one round of the loop, with the column index ci looked up
insert_val(p, rec, val_idx, col_names, schema, ci) ==
    IF ci < 0 THEN [rec |-> rec, unknown |-> TRUE]
    ELSE IF p.current.ttype \in {"StringLit", "Number"}
    THEN insert_vals_next(next_token(p), insert_set(rec, ci, p.current, schema),
                          val_idx, col_names, schema)
    ELSE [rec |-> rec, unknown |-> FALSE]
insert_vals(p, rec, val_idx, col_names, schema) ==
    IF val_idx < Len(col_names) /\ p.current.ttype \notin {"RParen", "Eof"}
    THEN insert_val(p, rec, val_idx, col_names, schema,
                    find_column_index(schema, col_names[val_idx + 1]))
    ELSE [rec |-> rec, unknown |-> FALSE]

\* the auto-filled columns of INSERT
insert_autofill(rec, schema, pid, ticks) ==
    LET owner_idx   == find_column_index(schema, "owner_pid")
        created_idx == find_column_index(schema, "created")
        size_idx    == find_column_index(schema, "size")
        data_idx    == find_column_index(schema, "data")
        r1 == [rec EXCEPT !.field_count = schema.column_count]
        r2 == IF owner_idx >= 0 THEN set_u64(r1, owner_idx, pid) ELSE r1
        r3 == IF created_idx >= 0 THEN set_u64(r2, created_idx, ticks) ELSE r2
    IN  IF size_idx >= 0 /\ data_idx >= 0 /\ r3.fields[data_idx] # None
           /\ r3.fields[data_idx].t = "Str"
        THEN set_u64(r3, size_idx, Len(r3.fields[data_idx].s))
        ELSE r3

\* exec_insert behind db_insert_record
insert_done(ins, row_id) ==
    IF ins.ret # VOS_OK THEN Err(ins.db, ins.ret, "Insert failed")
    ELSE [db |-> ins.db, result |-> set_result_msg_insert(db_result_create, row_id)]

\* exec_insert behind the loop over the values
insert_store(d1, schema, vl, row_id, pid, rnd, ticks) ==
    IF vl.unknown THEN Err(d1, VOS_ERR_INVAL, "Unknown column")
    ELSE insert_done(db_insert_record(d1, schema.table_id,
                                      insert_autofill(vl.rec, schema, pid, ticks),
                                      Draw(rnd, 1)),
                     row_id)

\* exec_insert from `Build record`: n is what db_next_row_id returned
insert_build(d, schema, col_names, p, n, pid, rnd, ticks) ==
    LET rec0 == [Record_new(schema.table_id) EXCEPT !.row_id = n.id,
                                                    !.table_id = schema.table_id]
        rec1 == IF schema.columns[0].primary_key THEN set_u64(rec0, 0, n.id) ELSE rec0
    IN  insert_store([d EXCEPT !.GLOBAL_ROW_ID = n.next, !.issued = Append(@, n.id)],
                     schema, insert_vals(p, rec1, 0, col_names, schema),
                     n.id, pid, rnd, ticks)

\* exec_insert behind the column names cl: `) VALUES (`
insert_values(d, schema, cl, pid, rnd, ticks) ==
    LET e3 == expect(cl.p, "RParen")
        e4 == expect(e3.p, "Values")
        e5 == expect(e4.p, "LParen")
    IN  IF ~e3.ok THEN Err(d, VOS_ERR_SYNTAX, "Expected ')'")
        ELSE IF ~e4.ok THEN Err(d, VOS_ERR_SYNTAX, "Expected VALUES")
        ELSE IF ~e5.ok THEN Err(d, VOS_ERR_SYNTAX, "Expected '('")
        ELSE insert_build(d, schema, cl.col_names, e5.p, db_next_row_id(d.GLOBAL_ROW_ID),
                          pid, rnd, ticks)

\* exec_insert behind expect(LParen)
insert_columns(d, schema, e2, pid, rnd, ticks) ==
    IF ~e2.ok THEN Err(d, VOS_ERR_SYNTAX, "Expected '('")
    ELSE insert_values(d, schema, insert_cols(e2.p, <<>>), pid, rnd, ticks)

\* exec_insert at the table name p.current, with the schema looked up
insert_table(d, schema, p, pid, rnd, ticks) ==
    IF schema = None THEN Err(d, VOS_ERR_NOTFOUND, "Table not found")
    ELSE insert_columns(d, schema, expect(next_token(p), "LParen"), pid, rnd, ticks)

\* exec_insert behind expect(Into)
insert_into(d, e1, pid, rnd, ticks) ==
    IF ~e1.ok THEN Err(d, VOS_ERR_SYNTAX, "Expected INTO")
    ELSE IF e1.p.current.ttype # "Ident" THEN Err(d, VOS_ERR_SYNTAX, "Expected table name")
    ELSE insert_table(d, db_get_schema_by_name(d, e1.p.current.value), e1.p,
                      pid, rnd, ticks)

exec_insert(d, p, pid, rnd, ticks) == insert_into(d, expect(p, "Into"), pid, rnd, ticks)

\* db_delete_record for the first collected row id only
delete_rows_first(d, table_id, rows, n) ==
    IF n = 0 THEN d ELSE db_delete_record(d, table_id, rows[1].row_id).db

\* db_delete_record for each collected row id, in order
RECURSIVE delete_rows(_, _, _, _)
delete_rows(d, table_id, rows, n) ==
    IF n = 0 THEN d
    ELSE db_delete_record(delete_rows(d, table_id, rows, n - 1), table_id, rows[n].row_id).db

\* exec_delete behind the scan: the collected rows deleted
delete_matches(d, schema, matches) ==
    [db |-> delete_rows(d, schema.table_id, matches, Len(matches)),
     result |-> set_result_msg_count(db_result_create, "row(s) deleted: ", Len(matches))]

\* exec_delete behind the WHERE clause w
delete_scan(d, schema, w) ==
    IF db_get_index(d, schema.table_id) = None
    THEN Err(d, VOS_ERR_INVAL, "No index for table")
    ELSE delete_matches(d, schema, ScanRows(d, schema, w.conds))

\* exec_delete at the table name p.current, with the schema looked up
delete_table(d, schema, p) ==
    IF schema = None THEN Err(d, VOS_ERR_NOTFOUND, "Table not found")
    ELSE delete_scan(d, schema, parse_where(next_token(p)))

\* exec_delete behind expect(From)
delete_from(d, e) ==
    IF ~e.ok THEN Err(d, VOS_ERR_SYNTAX, "Expected FROM")
    ELSE IF e.p.current.ttype # "Ident" THEN Err(d, VOS_ERR_SYNTAX, "Expected table name")
    ELSE delete_table(d, db_get_schema_by_name(d, e.p.current.value), e.p)

exec_delete(d, p) == delete_from(d, expect(p, "From"))

\* the SET assignments of UPDATE: [p, assignments]
RECURSIVE update_assigns(_, _)
\* behind the value: p3 at the next token, as2 with the assignment pushed
assign_next(p3, as2) ==
    IF p3.current.ttype = "Comma" THEN update_assigns(next_token(p3), as2)
    ELSE [p |-> p3, assignments |-> as2]
\* behind `=`: p2 at the value
assign_value(p2, col_name, assignments) ==
    IF p2.current.ttype \notin {"StringLit", "Number"}
    THEN [p |-> p2, assignments |-> assignments]
    ELSE assign_next(next_token(p2),
                     Append(assignments,
                            [col_name |-> col_name,
                             value |-> IF p2.current.ttype = "StringLit"
                                       THEN FStr(p2.current.value)
                                       ELSE FU64(parse_u64(p2.current.value))]))
\* behind the column name: p1 at `=`
assign_eq(p1, col_name, assignments) ==
    IF p1.current.ttype # "Eq" THEN [p |-> p1, assignments |-> assignments]
    ELSE assign_value(next_token(p1), col_name, assignments)
update_assigns(p, assignments) ==
    IF p.current.ttype = "Ident" /\ Len(assignments) < MAX_INSERT_VALS
    THEN assign_eq(next_token(p), Truncate(p.current.value, MAX_COLUMN_NAME - 1),
                   assignments)
    ELSE [p |-> p, assignments |-> assignments]

\* the assignments applied to a matched row, in order
RECURSIVE apply_assigns(_, _, _, _)
apply_assigns(rec, schema, assignments, n) ==
    IF n = 0 THEN rec
    ELSE LET r  == apply_assigns(rec, schema, assignments, n - 1)
             ci == find_column_index(schema, assignments[n].col_name)
         IN  IF ci < 0 THEN r ELSE [r EXCEPT !.fields[ci] = assignments[n].value]

\* db_update_encrypted for each matched row, in order
update_row(d, schema, modified, iv) ==
    db_update_encrypted(d, schema.table_id, modified.row_id, modified, iv).db
RECURSIVE update_rows(_, _, _, _, _, _)
update_rows(d, schema, rows, assignments, rnd, n) ==
    IF n = 0 THEN d
    ELSE update_row(update_rows(d, schema, rows, assignments, rnd, n - 1), schema,
                    apply_assigns(rows[n], schema, assignments, Len(assignments)),
                    Draw(rnd, n))

\* exec_update behind the scan: the matched rows updated
update_matches(d, schema, a, matches, rnd) ==
    [db |-> update_rows(d, schema, matches, a.assignments, rnd, Len(matches)),
     result |-> set_result_msg_count(db_result_create, "row(s) updated: ", Len(matches))]

\* exec_update behind the WHERE clause w
update_scan(d, schema, a, w, rnd) ==
    IF db_get_index(d, schema.table_id) = None
    THEN Err(d, VOS_ERR_INVAL, "No index for table")
    ELSE update_matches(d, schema, a, ScanRows(d, schema, w.conds), rnd)

\* exec_update behind the assignments a
update_where(d, schema, a, rnd) == update_scan(d, schema, a, parse_where(a.p), rnd)

\* exec_update behind expect(Set)
update_set(d, schema, e, rnd) ==
    IF ~e.ok THEN Err(d, VOS_ERR_SYNTAX, "Expected SET")
    ELSE update_where(d, schema, update_assigns(e.p, <<>>), rnd)

\* exec_update at the table name p.current, with the schema looked up
update_table(d, schema, p, rnd) ==
    IF schema = None THEN Err(d, VOS_ERR_NOTFOUND, "Table not found")
    ELSE update_set(d, schema, expect(next_token(p), "Set"), rnd)

exec_update(d, p, rnd) ==
    IF p.current.ttype # "Ident" THEN Err(d, VOS_ERR_SYNTAX, "Expected table name")
    ELSE update_table(d, db_get_schema_by_name(d, p.current.value), p, rnd)

\* rights |= bit on the values 0, 1, 2, 3 and 0xFF
OrBit(rights, bit) ==
    IF rights = 255 \/ (rights \div bit) % 2 = 1 THEN rights ELSE rights + bit

HexDigits == "0123456789abcdef"
RECURSIVE write_hex_to_buf(_)
write_hex_to_buf(val) ==
    IF val < 16 THEN Ch(HexDigits, val + 1)
    ELSE write_hex_to_buf(val \div 16) \o Ch(HexDigits, (val % 16) + 1)

\* the rights list of GRANT: [p, rights]
RECURSIVE grant_rights(_, _)
grant_rights_next(p1, r2) ==
    IF p1.current.ttype = "Comma" THEN grant_rights(next_token(p1), r2)
    ELSE [p |-> p1, rights |-> r2]
\* rights with the bit of the token tok set
grant_bit(tok, rights) ==
    IF tok.ttype = "Read" \/ str_eq_ignore_case(tok.value, "READ") THEN OrBit(rights, 1)
    ELSE IF tok.ttype = "Write" \/ str_eq_ignore_case(tok.value, "WRITE")
    THEN OrBit(rights, 2)
    ELSE IF tok.ttype = "All" \/ str_eq_ignore_case(tok.value, "ALL") THEN 255
    ELSE rights
grant_rights(p, rights) ==
    IF p.current.ttype \in {"Read", "Write", "All", "Ident"}
    THEN grant_rights_next(next_token(p), grant_bit(p.current, rights))
    ELSE [p |-> p, rights |-> rights]

\* exec_grant behind expect(To)
grant_to(g, e1, e2) ==
    IF ~e2.ok THEN db_result_error(VOS_ERR_SYNTAX, "Expected TO")
    ELSE IF e2.p.current.ttype # "Number"
    THEN db_result_error(VOS_ERR_SYNTAX, "Expected process_id")
    ELSE [db_result_create EXCEPT !.error_msg =
            "GRANT rights=0x" \o write_hex_to_buf(g.rights)
            \o " on obj=" \o write_u64_to_buf(parse_u64(e1.p.current.value))
            \o " to pid=" \o write_u64_to_buf(parse_u64(e2.p.current.value))
            \o " (cap system not yet wired)"]

\* exec_grant behind expect(On)
grant_on(g, e1) ==
    IF ~e1.ok THEN db_result_error(VOS_ERR_SYNTAX, "Expected ON")
    ELSE IF e1.p.current.ttype # "Number"
    THEN db_result_error(VOS_ERR_SYNTAX, "Expected object_id")
    ELSE grant_to(g, e1, expect(next_token(e1.p), "To"))

\* exec_grant behind the rights list g
grant_list(g) == grant_on(g, expect(g.p, "On"))

exec_grant(p) == grant_list(grant_rights(p, 0))

exec_revoke(p) ==
    IF p.current.ttype # "Number" THEN db_result_error(VOS_ERR_SYNTAX, "Expected cap_id")
    ELSE [db_result_create EXCEPT !.error_msg =
            "REVOKE cap_id=" \o write_u64_to_buf(parse_u64(p.current.value))
            \o " (cap system not yet wired)"]

\* the `match cmd` of query_execute: t is the first token's type, p1 the
\* parser behind the first token
statement(d, t, p1, caller_pid, rnd, ticks) ==
    CASE t = "Show" ->
           [db |-> d,
            result |-> IF p1.current.ttype = "Tables" THEN exec_show_tables(d)
                       ELSE db_result_error(VOS_ERR_SYNTAX, "Expected TABLES after SHOW")]
      [] t = "Describe" -> [db |-> d, result |-> exec_describe(d, p1)]
      [] t = "Select"   -> [db |-> d, result |-> exec_select(d, p1)]
      [] t = "Insert"   -> exec_insert(d, p1, caller_pid, rnd, ticks)
      [] t = "Delete"   -> exec_delete(d, p1)
      [] t = "Update"   -> exec_update(d, p1, rnd)
      [] t = "Grant"    -> [db |-> d, result |-> exec_grant(p1)]
      [] t = "Revoke"   -> [db |-> d, result |-> exec_revoke(p1)]
      [] OTHER          ->
           Err(d, VOS_ERR_SYNTAX,
               "Unknown command. Use: SELECT, INSERT, DELETE, UPDATE, SHOW TABLES, "
               \o "DESCRIBE, GRANT, REVOKE")

\* query_execute(input, caller_pid) with the IVs and the tick count it reads
query_execute(d, input, caller_pid, rnd, ticks) ==
    LET p == Parser_new(input)
    IN  statement(d, p.current.ttype, next_token(p), caller_pid, rnd, ticks)

\* ------------------------------------------------------------------------
\* storage/disk_alloc: the block allocator and the block device
\* ------------------------------------------------------------------------

\* The blocks the allocator hands out; 0 is its "no block" answer.
Blocks == 1..NumBlocks

\* A block as the device first holds it: zeroes.
ZeroPage == [magic |-> 0, payload_len |-> 0, next_block |-> 0, payload |-> None]

\* The device and the allocator after formatting: every block free and
\* zeroed, the hint at the first block.  double_free records that a free
\* block was freed, which the allocator leaves undefined.
disk_init ==
    [bitmap |-> [b \in Blocks |-> FALSE], hint |-> 1,
     blocks |-> [b \in Blocks |-> ZeroPage], double_free |-> FALSE]

\* disk_alloc_block(): first fit from the rotating hint, 0 if the device is full
disk_alloc_block(dv) ==
    LET free  == {b \in Blocks : ~dv.bitmap[b]}
        ahead == {b \in Blocks : ~dv.bitmap[b] /\ b >= dv.hint}
        blk   == IF free = {} THEN 0
                 ELSE IF ahead # {} THEN SetMin(ahead) ELSE SetMin(free)
    IN  [dev   |-> IF blk = 0 THEN dv
                   ELSE [dv EXCEPT !.bitmap[blk] = TRUE,
                                   !.hint = (blk % NumBlocks) + 1],
         block |-> blk]

\* disk_free_block(blk)
disk_free_block(dv, blk) ==
    IF dv.bitmap[blk] THEN [dv EXCEPT !.bitmap[blk] = FALSE]
    ELSE [dv EXCEPT !.double_free = TRUE]

\* disk_write_block(blk, buf) when the device accepts the write (ok) or
\* answers with an IO error
disk_write_block(dv, blk, pg, ok) ==
    IF ok THEN [dv EXCEPT !.blocks[blk] = pg] ELSE dv

\* disk_read_block(blk, buf): the page read; the zeroed buffer on an IO error
disk_read_block(dv, blk, ok) ==
    IF ok THEN dv.blocks[blk] ELSE ZeroPage

\* The outcomes of the device calls of one operation: its wfail-th write and
\* its rfail-th read answer with an IO error (0: none does).
IoOutcomes == [wfail : 0..MaxPages, rfail : 0..MaxPages]

\* ------------------------------------------------------------------------
\* storage/page_io.rs: record pages
\* ------------------------------------------------------------------------

PAGE_RECORD_MAGIC == 1380270916
RECORD_PAGE_PAYLOAD == 4080
RECORD_PAYLOAD_HDR == 64

\* A RecordPage holding chunk bytes of the payload of enc from offset on
RecordPage_start(enc, offset, chunk) ==
    [magic |-> PAGE_RECORD_MAGIC, payload_len |-> chunk, next_block |-> 0,
     payload |-> [of |-> enc, from |-> 0]]
RecordPage(enc, offset, chunk) ==
    [magic |-> PAGE_RECORD_MAGIC, payload_len |-> chunk, next_block |-> 0,
     payload |-> [of |-> enc, from |-> offset]]

\* Whether the first four bytes of a block read as a RecordPage are
\* PAGE_RECORD_MAGIC: for a block that holds the bytes of a node page, whether
\* they are the bytes of "RECD", least significant first
has_record_magic(pg) ==
    IF "bytes" \in DOMAIN pg
    THEN SubSeq(pg.bytes, 1, 4) = <<68, 67, 69, 82>>
    ELSE pg.magic = PAGE_RECORD_MAGIC

\* next_block of a block read as a RecordPage: for a block that holds the
\* bytes of a node page, the u64 at offset 8, whose bytes above the second
\* are zero for a block number of the device
next_block_of(pg) ==
    IF "bytes" \in DOMAIN pg
    THEN pg.bytes[9] + 256 * pg.bytes[10]
    ELSE pg.next_block

\* page_free_record_blocks(block), nr reads made so far.  The walk ends on a
\* double free, from where the allocator's behaviour is undefined.
RECURSIVE free_chain(_, _, _, _)
free_chain(dv, cur, io, nr) ==
    IF cur = 0 \/ dv.double_free THEN dv
    ELSE LET pg   == disk_read_block(dv, cur, io.rfail # nr + 1)
             next == IF io.rfail # nr + 1 /\ has_record_magic(pg)
                     THEN next_block_of(pg) ELSE 0
         IN  free_chain(disk_free_block(dv, cur), next, io, nr + 1)

page_free_record_blocks(dv, block, io) == free_chain(dv, block, io, 0)

\* The last page of page_write_record: write prev_pg to prev_block
write_last(dv, first_block, prev_block, prev_pg, nw, io) ==
    IF prev_pg # None
    THEN IF io.wfail = nw + 1
         THEN [dev |-> dv, ret |-> 0]
         ELSE [dev |-> disk_write_block(dv, prev_block, prev_pg, TRUE),
               ret |-> first_block]
    ELSE [dev |-> dv, ret |-> first_block]

\* The loop of page_write_record: remaining bytes of the payload of enc are
\* still to be written from offset on, nw writes have been made.
RECURSIVE write_chain(_, _, _, _, _, _, _, _, _)
\* One turn of the loop with the block a.block just allocated
write_page(a, enc, remaining, offset, first_block, prev_block, prev_pg, nw, io) ==
    LET chunk == Min2(remaining, RECORD_PAGE_PAYLOAD)
    IN  IF prev_pg # None
        THEN IF io.wfail = nw + 1
             THEN [dev |-> disk_free_block(
                               disk_write_block(a.dev, prev_block,
                                   [prev_pg EXCEPT !.next_block = a.block], FALSE),
                               a.block),
                   ret |-> 0]
             ELSE write_chain(disk_write_block(a.dev, prev_block,
                                  [prev_pg EXCEPT !.next_block = a.block], TRUE),
                              enc, remaining - chunk, offset + chunk,
                              first_block, a.block,
                              RecordPage(enc, offset, chunk), nw + 1, io)
        ELSE write_chain(a.dev, enc, remaining - chunk, offset + chunk,
                         IF first_block = 0 THEN a.block ELSE first_block,
                         a.block, RecordPage(enc, offset, chunk), nw, io)

\* One turn of the loop from the answer a of disk_alloc_block
write_alloc(dv, a, enc, remaining, offset, first_block, prev_block, prev_pg, nw, io) ==
    IF a.block = 0
    THEN [dev |-> IF first_block # 0
                  THEN page_free_record_blocks(dv, first_block, io)
                  ELSE dv,
          ret |-> 0]
    ELSE write_page(a, enc, remaining, offset, first_block, prev_block,
                    prev_pg, nw, io)

write_chain(dv, enc, remaining, offset, first_block, prev_block, prev_pg, nw, io) ==
    IF remaining > 0
    THEN write_alloc(dv, disk_alloc_block(dv), enc, remaining, offset,
                     first_block, prev_block, prev_pg, nw, io)
    ELSE write_last(dv, first_block, prev_block, prev_pg, nw, io)

\* page_write_record(enc): the device afterwards and the block returned.
\* RECORD_PAYLOAD_HDR + ciphertext_len of a u32 does not overflow a usize.
page_write_record(dv, enc, io) ==
    write_chain(dv, enc, RECORD_PAYLOAD_HDR + enc.ciphertext_len, 0, 0, 0,
                None, 0, io)

\* ------------------------------------------------------------------------
\* State
\* ------------------------------------------------------------------------

VARIABLES
    tree,       \* the Btree under test of the B-tree specifications
    ret,        \* return value of the last btree_insert / btree_delete call
    panicked,   \* a call has panicked: the kernel has halted
    hist,       \* key -> value of the most recent insert not followed by a
                \* delete of that key, NullPtr otherwise (history of the calls)
    nops,       \* number of calls made so far
    db,         \* the statics of db/database.rs (SCHEMAS, INDEXES, ...)
    result,     \* what the last database call returned: [call, error_code, ...]
    dev,        \* the block device and its allocator: [bitmap, hint, blocks, ...]
    pres        \* what the last page call returned, and the records on disk:
                \* [call, ret, records, encs]

btVars == <<tree, ret, hist>>
dbVars == <<db, result>>
pgVars == <<dev, pres>>
vars == <<tree, ret, panicked, hist, nops, db, result, dev, pres>>

Keys   == 1..MaxKey
Val(v) == [tag |-> "val", v |-> v]
Values == {Val(1), Val(2)}

\* The state after construction: an empty tree, the statics as declared.
Init ==
    /\ tree = btree_init(0)
    /\ ret = 0
    /\ panicked = FALSE
    /\ hist = [k \in Keys |-> NullPtr]
    /\ nops = 0
    /\ db = db_init
    /\ result = [call |-> "none", error_code |-> VOS_OK]
    /\ dev = disk_init
    /\ pres = [call |-> "none", ret |-> 0, records |-> {},
               encs |-> [b \in Blocks |-> None]]

\* A call of btree_insert(tree, k, v)
BtInsertCall(k, v) ==
    LET r == btree_insert(tree, k, v)
    IN  /\ tree' = r.tree
        /\ panicked' = r.panic
        /\ ret' = 0
        /\ hist' = IF k \in DOMAIN hist THEN [hist EXCEPT ![k] = v] ELSE hist

\* A call of btree_delete(tree, k).  On a u64 underflow of tree.count the
\* build decides: "panic" (overflow checks on) or "wrap".
BtDeleteCall(k) ==
    LET r == btree_delete(tree, k)
    IN  /\ ret' = r.ret
        /\ hist' = IF k \in DOMAIN hist THEN [hist EXCEPT ![k] = NullPtr] ELSE hist
        /\ \E build \in (IF r.underflow THEN {"panic", "wrap"} ELSE {"wrap"}) :
              /\ panicked' = (build = "panic")
              /\ tree' = IF build = "panic" THEN tree
                         ELSE [r.tree EXCEPT !.count = IF r.underflow THEN -1 ELSE @]

Insert ==
    /\ ~panicked
    /\ nops < MaxOps
    /\ nops' = nops + 1
    /\ \E k \in Keys, v \in Values : BtInsertCall(k, v)
    /\ UNCHANGED <<dbVars, pgVars>>

Delete ==
    /\ ~panicked
    /\ nops < MaxOps
    /\ tree.count >= 0
    /\ nops' = nops + 1
    /\ \E k \in Keys : BtDeleteCall(k)
    /\ UNCHANGED <<dbVars, pgVars>>

BtNext == Insert \/ Delete

\* Any sequence of btree_insert and btree_delete calls on one tree.
SpecBtree == Init /\ [][BtNext]_vars

\* Largest key stored in the tree (0 for the empty tree).
MaxStoredKey ==
    LET ks == SlotKeys(tree.root)
    IN  SetMax({ks[i] : i \in 1..Len(ks)} \cup {0})

\* btree_insert with a key above every key inserted before.
InsertAscending ==
    /\ ~panicked
    /\ \E k \in (MaxStoredKey + 1)..MaxAscKey : BtInsertCall(k, Val(1))
    /\ nops' = nops + 1
    /\ UNCHANGED <<dbVars, pgVars>>

\* Strictly ascending btree_insert calls on one tree.
SpecAscending == Init /\ [][InsertAscending]_vars

\* ------------------------------------------------------------------------
\* Database calls
\* ------------------------------------------------------------------------

MasterKeys == 1..MaxMasterKey
IVs        == {[tag |-> "iv", n |-> k] : k \in 1..MaxIv}
Rnds       == [1..MaxDraws -> IVs]
Pids       == 1..MaxPid
Ticks      == 0..MaxTick

Long64 == "0123456789012345678901234567890123456789012345678901234567890123"

\* a schema a caller of db_create_table registers
UserSchemas ==
    { TableSchema("Notes", FALSE,
        << make_col("id", "U64", TRUE, FALSE), make_col("body", "Str", FALSE, FALSE) >>) }

\* table ids callers pass: the system table and the first user table
ApiTables == {TABLE_ID_SYSTEM, Len(SystemSchemas)}

\* records callers pass to db_insert_record and db_update_encrypted
ApiRecord(table_id, row_id, big) ==
    LET r0 == [Record_new(table_id) EXCEPT !.row_id = row_id, !.field_count = 4]
        r1 == set_u64(set_u64(r0, 0, row_id), 3, 0)
    IN  IF big THEN set_str(set_str(r1, 1, "os.philosophy"), 2, Long64)
        ELSE set_str(set_str(r1, 1, "k"), 2, "v")

Running == ~panicked /\ ~db.dangling

\* The statics after a call that computed d.  An underflow of tree.count
\* panics in a build with overflow checks and wraps in one without.
Commit(d) ==
    \E build \in (IF d.underflow THEN {"panic", "wrap"} ELSE {"wrap"}) :
        /\ panicked' = (d.panic \/ build = "panic")
        /\ db' = [d EXCEPT !.underflow = FALSE]

\* Cold boot: db_init, db_set_master_key / db_generate_master_key,
\* db_init_system_tables
ColdBoot ==
    /\ Running
    /\ db.TABLE_COUNT = 0
    /\ \E key \in MasterKeys, rnd \in Rnds :
          Commit(db_init_system_tables(db_set_master_key(db_init, key), rnd))
    /\ result' = [call |-> "db_init_system_tables", error_code |-> VOS_OK]
    /\ UNCHANGED <<btVars, pgVars, nops>>

DbCreateTable ==
    /\ Running
    /\ db.TABLE_COUNT > 0
    /\ nops < MaxDbOps
    /\ nops' = nops + 1
    /\ \E schema \in UserSchemas :
          \E r \in {db_create_table(db, schema)} :
              /\ Commit(r.db)
              /\ result' = [call |-> "db_create_table", error_code |-> r.ret]
    /\ UNCHANGED <<btVars, pgVars>>

DbInsertRecord ==
    /\ Running
    /\ db.TABLE_COUNT > 0
    /\ nops < MaxDbOps
    /\ nops' = nops + 1
    /\ \E t \in ApiTables, row_id \in 1..MaxRowKey, big \in BOOLEAN, iv \in IVs :
          \E r \in {db_insert_record(db, t, ApiRecord(t, row_id, big), iv)} :
              /\ Commit(r.db)
              /\ result' = [call |-> "db_insert_record", error_code |-> r.ret,
                            table_id |-> t, row_id |-> row_id,
                            rec |-> ApiRecord(t, row_id, big)]
    /\ UNCHANGED <<btVars, pgVars>>

DbDeleteRecord ==
    /\ Running
    /\ db.TABLE_COUNT > 0
    /\ nops < MaxDbOps
    /\ nops' = nops + 1
    /\ \E t \in ApiTables, row_id \in 1..MaxRowKey :
          \E r \in {db_delete_record(db, t, row_id)} :
              /\ Commit(r.db)
              /\ result' = [call |-> "db_delete_record", error_code |-> r.ret,
                            table_id |-> t, row_id |-> row_id]
    /\ UNCHANGED <<btVars, pgVars>>

DbUpdateEncrypted ==
    /\ Running
    /\ db.TABLE_COUNT > 0
    /\ nops < MaxDbOps
    /\ nops' = nops + 1
    /\ \E t \in ApiTables, row_id \in 1..MaxRowKey, big \in BOOLEAN, iv \in IVs :
          \E r \in {db_update_encrypted(db, t, row_id, ApiRecord(t, row_id, big), iv)} :
              /\ Commit(r.db)
              /\ result' = [call |-> "db_update_encrypted", error_code |-> r.ret,
                            table_id |-> t, row_id |-> row_id,
                            rec |-> ApiRecord(t, row_id, big)]
    /\ UNCHANGED <<btVars, pgVars>>

DbGetRecord ==
    /\ Running
    /\ db.TABLE_COUNT > 0
    /\ nops < MaxDbOps
    /\ nops' = nops + 1
    /\ \E t \in ApiTables, row_id \in 1..MaxRowKey :
          \E r \in {db_get_run(db, t, row_id)} :
              /\ Commit([db EXCEPT !.CRYPTO_BUF = r.CRYPTO_BUF])
              /\ result' = [call |-> "db_get_record", error_code |-> VOS_OK,
                            table_id |-> t, row_id |-> row_id, rec |-> r.rec,
                            aes |-> r.aes, computed_mac |-> r.computed_mac]
    /\ UNCHANGED <<btVars, pgVars>>

DbNext ==
    \/ ColdBoot \/ DbCreateTable \/ DbInsertRecord \/ DbDeleteRecord
    \/ DbUpdateEncrypted \/ DbGetRecord

\* A cold boot followed by any sequence of calls of the engine's API.
SpecDb == Init /\ [][DbNext]_vars

DbSetTableCount ==
    /\ Running
    /\ nops < MaxDbOps
    /\ nops' = nops + 1
    /\ \E count \in 0..MAX_TABLES : Commit(db_set_table_count(db, count))
    /\ result' = [call |-> "db_set_table_count", error_code |-> VOS_OK]
    /\ UNCHANGED <<btVars, pgVars>>

ScratchNext == ColdBoot \/ DbSetTableCount \/ DbInsertRecord \/ DbGetRecord

\* The calls that use the scratch buffers, on any table count a caller sets.
SpecScratch == Init /\ [][ScratchNext]_vars

\* ------------------------------------------------------------------------
\* SQL statements
\* ------------------------------------------------------------------------

\* the statements callers submit
QueryInputs ==
    { "INSERT INTO SystemTable (key, value) VALUES ('k', 'v')",
      "INSERT INTO SystemTable (key, value) VALUES ('os.philosophy', '" \o Long64 \o "')",
      "INSERT INTO SystemTable (nokey) VALUES (1)",
      "insert into systemtable (key) values",
      "DELETE FROM SystemTable WHERE id = 2",
      "DELETE FROM SystemTable WHERE",
      "UPDATE SystemTable SET value = 'w' WHERE id = 1",
      "UPDATE SystemTable SET value = '" \o Long64 \o "' WHERE id = 3",
      "SELECT * FROM SystemTable WHERE id > 1",
      "SELECT * FROM SystemTable WHERE id > 1 garbage",
      "SELECT FROM",
      "SHOW TABLES",
      "DESCRIBE AuditTable",
      "GRANT READ, WRITE ON 3 TO 4",
      "REVOKE 7",
      "FROB" }

\* a call of query_execute on one of the inputs, the max-th call at most
QueryExecuteOf(inputs, max) ==
    /\ Running
    /\ nops < max
    /\ nops' = nops + 1
    /\ \E input \in inputs, pid \in Pids, rnd \in Rnds, ticks \in Ticks :
          \E r \in {query_execute(db, input, pid, rnd, ticks)} :
              /\ Commit(r.db)
              /\ result' = [call |-> "query_execute", input |-> input, pid |-> pid,
                            error_code |-> r.result.error_code,
                            error_msg |-> r.result.error_msg,
                            rows |-> r.result.rows,
                            schema |-> r.result.schema]
    /\ UNCHANGED <<btVars, pgVars>>

QueryExecute == QueryExecuteOf(QueryInputs, MaxSqlOps)

SqlNext == ColdBoot \/ QueryExecute

\* A cold boot and any sequence of SQL statements.
SpecSql == Init /\ [][SqlNext]_vars

\* what the DELETE statements callers submit delete: table and condition
DeleteTargets ==
    { "ObjectTable WHERE name = 'note'",
      "ObjectTable WHERE obj_id > 7",
      "SystemTable WHERE id > 2" }

\* the statements callers submit on the rows of the object table and of
\* the system table
RowInputs ==
    {"DELETE FROM " \o c : c \in DeleteTargets} \cup
    { "INSERT INTO SystemTable (key, value) VALUES ('k', 'v')",
      "SELECT * FROM SystemTable WHERE id > 2",
      "INSERT INTO ObjectTable (name, type, data) VALUES ('note', 'file', 'hello')",
      "INSERT INTO ObjectTable (name) VALUES ('memo')",
      "INSERT INTO ObjectTable (obj_id, name) VALUES (9, 'n')",
      "UPDATE ObjectTable SET data = 'world' WHERE name = 'note'",
      "UPDATE ObjectTable SET size = 'big' WHERE name = 'note'",
      "UPDATE ObjectTable SET data = '" \o Long64 \o "' WHERE name = 'note'",
      "UPDATE ObjectTable SET type = 'a', type = 'b', type = 'c', type = 'd', type = 'e' WHERE name = 'memo'",
      "SELECT * FROM ObjectTable WHERE name = 'note'",
      "SELECT * FROM ObjectTable WHERE data = 'hello' AND size = 5",
      "SELECT * FROM ObjectTable WHERE data != 'hello'",
      "SELECT * FROM ObjectTable WHERE name = 'note' AND size = 5 AND data = 'x'",
      "SELECT name FROM ObjectTable" }

RowExecute == QueryExecuteOf(RowInputs, MaxRowOps)

RowNext == ColdBoot \/ RowExecute

\* A cold boot and any sequence of statements on the object table.
SpecRows == Init /\ [][RowNext]_vars

\* ------------------------------------------------------------------------
\* GRANT and REVOKE
\* ------------------------------------------------------------------------

\* GRANT and REVOKE statements, well-formed and malformed, and an INSERT
GrantInputs ==
    { "GRANT READ, WRITE ON 3 TO 4",
      "GRANT ALL ON 3 TO 4",
      "grant execute on 3 to 4",
      "GRANT READ ON ObjectTable TO 4",
      "GRANT READ ON 3",
      "GRANT ON 3 TO 4",
      "GRANT READ ON 3 TO 4 5",
      "REVOKE 7",
      "REVOKE seven",
      "REVOKE 7 8",
      "INSERT INTO SystemTable (key, value) VALUES ('k', 'v')" }

GrantExecute == QueryExecuteOf(GrantInputs, MaxGrantOps)

GrantNext == ColdBoot \/ GrantExecute

\* A cold boot and any sequence of GRANT, REVOKE and INSERT statements.
SpecGrant == Init /\ [][GrantNext]_vars

\* ------------------------------------------------------------------------
\* Tables registered
\* ------------------------------------------------------------------------

\* the schemas callers pass to db_create_table
CalledSchemas ==
    UserSchemas \cup
    { TableSchema("systemtable", FALSE,
        << make_col("id", "U64", TRUE, FALSE), make_col("note", "Str", FALSE, FALSE) >>) }

\* a call that registers tables has computed the statics d
Registered(call, d) ==
    /\ Running
    /\ nops < MaxTableOps
    /\ nops' = nops + 1
    /\ Commit(d)
    /\ result' = [call |-> call, error_code |-> VOS_OK]
    /\ UNCHANGED <<btVars, pgVars>>

TblCreateTable == \E schema \in CalledSchemas : Registered("db_create_table", db_create_table(db, schema).db)

TblInitSystemTables == \E rnd \in Rnds : Registered("db_init_system_tables", db_init_system_tables(db, rnd))

TblRegisterSystemTables == Registered("db_register_system_tables", db_register_system_tables(db))

TableNext == TblCreateTable \/ TblInitSystemTables \/ TblRegisterSystemTables

\* Any sequence of db_create_table, db_init_system_tables and
\* db_register_system_tables calls behind db_init.
SpecTables == Init /\ [][TableNext]_vars

\* ------------------------------------------------------------------------
\* Master key replaced
\* ------------------------------------------------------------------------

\* the master keys a caller or a restart supplies: those of a cold boot and
\* one more
RestartKeys == 1..(MaxMasterKey + 1)

\* db_set_master_key on the running engine
DbSetMasterKey ==
    /\ Running
    /\ db.TABLE_COUNT > 0
    /\ nops < MaxRekeyOps
    /\ nops' = nops + 1
    /\ \E key \in RestartKeys :
          Commit([db_set_master_key(db, key)
                     EXCEPT !.key_changed = @ \/ key # db.MASTER_DB_KEY])
    /\ result' = [call |-> "db_set_master_key", error_code |-> VOS_OK]
    /\ UNCHANGED <<btVars, pgVars>>

\* db_rederive_table_keys on the running engine
DbRederiveTableKeys ==
    /\ Running
    /\ db.TABLE_COUNT > 0
    /\ nops < MaxRekeyOps
    /\ nops' = nops + 1
    /\ Commit([db_rederive_table_keys(db) EXCEPT !.key_changed = FALSE])
    /\ result' = [call |-> "db_rederive_table_keys", error_code |-> VOS_OK]
    /\ UNCHANGED <<btVars, pgVars>>

\* the indexes read back from disk handed to the engine: db_set_index for
\* the tables 0 .. n - 1 of old
RECURSIVE restore_upto(_, _, _)
restore_upto(d, old, n) ==
    IF n = 0 THEN d
    ELSE IF old.INDEXES[n - 1] = None THEN restore_upto(d, old, n - 1)
    ELSE db_set_index(restore_upto(d, old, n - 1), n - 1, old.INDEXES[n - 1])

\* the engine after a restart from the state old with the master key `key`:
\* db_init, db_set_master_key, db_register_system_tables, then the indexes
\* and the row id counter restored
warm_boot(old, key) ==
    LET d1 == db_register_system_tables(db_set_master_key(db_init, key))
        d2 == restore_upto(d1, old, Min2(old.TABLE_COUNT, d1.TABLE_COUNT))
    IN  [db_set_global_row_id(d2, old.GLOBAL_ROW_ID)
            EXCEPT !.issued = old.issued, !.deleted = old.deleted, !.written = old.written]

\* Warm boot with the same or another master key
WarmBoot ==
    /\ Running
    /\ db.TABLE_COUNT > 0
    /\ nops < MaxRekeyOps
    /\ nops' = nops + 1
    /\ \E key \in RestartKeys : Commit(warm_boot(db, key))
    /\ result' = [call |-> "db_register_system_tables", error_code |-> VOS_OK]
    /\ UNCHANGED <<btVars, pgVars>>

RekeyGet ==
    /\ nops < MaxRekeyOps
    /\ DbGetRecord

\* the statement that reads the system table
RekeyInputs == {"SELECT * FROM SystemTable"}

RekeySelect == QueryExecuteOf(RekeyInputs, MaxRekeyOps)

RekeyNext ==
    \/ ColdBoot \/ DbInsertRecord \/ DbSetMasterKey \/ DbRederiveTableKeys
    \/ WarmBoot \/ RekeyGet \/ RekeySelect

\* A cold boot, then records are inserted and read while the master key is
\* replaced and the keys re-derived, by call or by a restart.
SpecRekey == Init /\ [][RekeyNext]_vars

\* ------------------------------------------------------------------------
\* Stored records altered behind the engine's back
\* ------------------------------------------------------------------------

\* a value with some of its bits flipped
Flip(x) == [tag |-> "flipped", of |-> x]

\* the EncryptedRecord old, wherever the tree points to it, now reads new
RECURSIVE PokeNode(_, _, _)
PokeNode(node, old, new) ==
    IF node = NullNode THEN node
    ELSE [node EXCEPT
            !.values = [i \in DOMAIN node.values |->
                          IF node.values[i] = old THEN new ELSE node.values[i]],
            !.children = [i \in DOMAIN node.children |->
                            PokeNode(node.children[i], old, new)]]

EncParts == {"iv", "ciphertext", "mac"}

\* What a stored EncryptedRecord e of table t can be overwritten with: one
\* part with flipped bits or with the same part of another stored record, or
\* iv, ciphertext and mac with those of another stored record.
Overwrites(t, e) ==
    {[e EXCEPT ![part] = Flip(e[part])] : part \in EncParts}
    \cup {[e EXCEPT ![part] = o[part]] :
             part \in EncParts, o \in LiveValues(db.INDEXES[t])}
    \cup {[e EXCEPT !.iv = o.iv, !.ciphertext = o.ciphertext, !.mac = o.mac] :
             o \in LiveValues(db.INDEXES[t])}

\* A stored EncryptedRecord of the system table is overwritten in memory.
Tamper ==
    /\ Running
    /\ db.TABLE_COUNT > 0
    /\ nops < MaxTamperOps
    /\ nops' = nops + 1
    /\ \E e \in LiveValues(db.INDEXES[TABLE_ID_SYSTEM]) :
          \E new \in Overwrites(TABLE_ID_SYSTEM, e) :
              /\ new # e
              /\ db' = [db EXCEPT !.INDEXES[TABLE_ID_SYSTEM].root =
                                     PokeNode(@, e, new)]
    /\ result' = [call |-> "tamper", error_code |-> VOS_OK]
    /\ UNCHANGED <<btVars, pgVars, panicked>>

TamperGet ==
    /\ nops < MaxTamperOps
    /\ DbGetRecord

TamperInputs == {"SELECT * FROM SystemTable"}

TamperSelect == QueryExecuteOf(TamperInputs, MaxTamperOps)

TamperNext == ColdBoot \/ Tamper \/ TamperGet \/ TamperSelect

\* A cold boot, then stored records are altered, read and selected.
SpecTamper == Init /\ [][TamperNext]_vars

\* The encrypted records written to pages: one of each chain length
PageRecords ==
    {[row_id |-> 1, table_id |-> TABLE_ID_SYSTEM, ciphertext_len |-> n,
      iv |-> n + 1, mac |-> n + 2] :
        n \in {16} \cup {k * RECORD_PAGE_PAYLOAD : k \in 1..(MaxPages - 1)}}

PageWriteRecord ==
    /\ ~dev.double_free
    /\ nops < MaxPageOps
    /\ nops' = nops + 1
    /\ \E enc \in PageRecords, io \in IoOutcomes :
          \E r \in {page_write_record(dev, enc, io)} :
              /\ dev' = r.dev
              /\ pres' = [call |-> "page_write_record", ret |-> r.ret,
                          records |-> IF r.ret # 0
                                      THEN pres.records \cup {r.ret}
                                      ELSE pres.records,
                          encs |-> IF r.ret # 0
                                   THEN [pres.encs EXCEPT ![r.ret] = enc]
                                   ELSE pres.encs,
                          enc |-> enc]
    /\ UNCHANGED <<btVars, dbVars, panicked>>

\* page_free_record_blocks on the first block of a record written before
PageFreeRecordBlocks ==
    /\ ~dev.double_free
    /\ nops < MaxPageOps
    /\ nops' = nops + 1
    /\ \E block \in pres.records, io \in IoOutcomes :
          /\ dev' = page_free_record_blocks(dev, block, io)
          /\ pres' = [call |-> "page_free_record_blocks", ret |-> 0,
                      records |-> pres.records \ {block},
                      encs |-> [pres.encs EXCEPT ![block] = None]]
    /\ UNCHANGED <<btVars, dbVars, panicked>>

PageNext == PageWriteRecord \/ PageFreeRecordBlocks

\* Any sequence of record writes and frees on a formatted device.
SpecPage == Init /\ [][PageNext]_vars

\* ------------------------------------------------------------------------
\* Claims
\* ------------------------------------------------------------------------

\* C1: no sequence of btree_insert calls makes a step index keys/values at
\* an index >= BTREE_MAX_KEYS or children at an index >= BTREE_ORDER: no
\* insert panics.
C1_InsertNeverPanics == ~panicked

\* C2: btree_search(k) returns the value of the most recent insert of k when
\* no delete of k followed it, and null otherwise.
C2_SearchIsMap ==
    ~panicked => \A k \in Keys : btree_search(tree, k) = hist[k]

\* Keys a scan reports, in callback order.
ScanKeys == LET s == btree_scan(tree) IN [i \in 1..Len(s) |-> s[i].key]

\* C3: btree_scan invokes the callback exactly once for each key whose value
\* is non-null, in strictly ascending key order, and never for a key that was
\* removed or tombstoned.
C3_ScanAscendingLiveOnce ==
    ~panicked =>
        /\ \A i \in 1..(Len(ScanKeys) - 1) : ScanKeys[i] < ScanKeys[i + 1]
        /\ {ScanKeys[i] : i \in 1..Len(ScanKeys)}
             = {k \in Keys : btree_search(tree, k) # NullPtr}
        /\ \A i \in 1..Len(ScanKeys) : hist[ScanKeys[i]] # NullPtr

\* C7: btree_delete(k) returns 0 and decrements tree.count by exactly 1 when k
\* has a live value; otherwise it returns -1 and leaves the tree and
\* tree.count unchanged.
C7_DeleteContract ==
    [][\A k \in Keys :
          (BtDeleteCall(k) /\ ~panicked') =>
              IF btree_search(tree, k) # NullPtr
              THEN ret' = 0 /\ tree'.count = tree.count - 1
              ELSE ret' = -1 /\ tree' = tree]_vars

\* Number of slots of the tree holding key k.
SlotsOf(t, k) ==
    LET ks == SlotKeys(t.root) IN Cardinality({i \in 1..Len(ks) : ks[i] = k})

\* C8: btree_insert(k, v) for a key already stored replaces k's value with v
\* and leaves the number of key slots unchanged, so that no key ever occupies
\* two slots; tree.count is incremented by 1 on every call.
C8_OverwriteKeepsSlots ==
    [][\A k \in Keys, v \in Values :
          (BtInsertCall(k, v) /\ ~panicked') =>
              /\ tree'.count = tree.count + 1
              /\ SlotsOf(tree, k) > 0 =>
                    /\ btree_search(tree', k) = v
                    /\ NumSlots(tree'.root) = NumSlots(tree.root)
              /\ \A j \in Keys : SlotsOf(tree', j) <= 1]_vars

\* C4: an operation that fails with a capacity error leaves the engine state
\* unchanged: db_create_table at MAX_TABLES returns ERR_FULL and registers
\* nothing; db_insert_record of a record that overflows the serialization
\* buffer returns an error and inserts nothing; db_update_encrypted of such a
\* record returns an error and leaves the row present with its previous
\* content.
C4_CapacityErrorsChangeNothing ==
    [][/\ (result'.call = "db_create_table" /\ db.TABLE_COUNT >= MAX_TABLES) =>
             result'.error_code = VOS_ERR_FULL /\ db' = db
       /\ (result'.call = "db_insert_record" /\ record_serialize(result'.rec).len = 0) =>
             result'.error_code # VOS_OK /\ db' = db
       /\ (/\ result'.call = "db_update_encrypted"
           /\ record_serialize(result'.rec).len = 0
           /\ db_get_record(db, result'.table_id, result'.row_id) # None) =>
             /\ result'.error_code # VOS_OK
             /\ db_get_record(db', result'.table_id, result'.row_id)
                  = db_get_record(db, result'.table_id, result'.row_id)]_vars

\* C9: after any sequence of db_insert_record, db_update_encrypted and
\* db_delete_record calls, in every table each B-tree key occurs exactly once
\* and the encrypted record stored under key k, and the record it decrypts
\* to, have row_id = k and table_id equal to the table's id.
C9_KeysOnceRowIdIsKey ==
    ~panicked =>
        \A t \in 0..(db.TABLE_COUNT - 1) :
            LET ks == SlotKeys(db.INDEXES[t].root)
                s  == btree_scan(db.INDEXES[t])
            IN  /\ \A i, j \in 1..Len(ks) : i # j => ks[i] # ks[j]
                /\ \A i \in 1..Len(s) :
                      LET rec == db_decrypt_record(db, t, s[i].value)
                      IN  /\ s[i].value.row_id = s[i].key
                          /\ s[i].value.table_id = t
                          /\ rec # None
                          /\ rec.row_id = s[i].key
                          /\ rec.table_id = t

\* ------------------------------------------------------------------------
\* The grammar of statements
\* ------------------------------------------------------------------------

\* the token types of input, in order, up to Eof
RECURSIVE TokensFrom(_)
TokensFrom(p) ==
    IF p.current.ttype = "Eof" THEN <<>>
    ELSE <<p.current.ttype>> \o TokensFrom(next_token(p))
TokensOf(input) == TokensFrom(Parser_new(input))

\* type of the i-th token of ts, Eof behind the last
Tk(ts, i) == IF i <= Len(ts) THEN ts[i] ELSE "Eof"
IsValue(t) == t \in {"StringLit", "Number"}
IsOp(t) == t \in {"Eq", "Neq", "Lt", "Gt", "Le", "Ge"}

\* Each production returns the position behind its longest match from
\* position i, and 0 when there is none.
\* IDENT (',' IDENT)*
RECURSIVE IdentList(_, _)
IdentList(ts, i) ==
    IF Tk(ts, i) # "Ident" THEN 0
    ELSE IF Tk(ts, i + 1) = "Comma" THEN IdentList(ts, i + 2) ELSE i + 1
\* value (',' value)*
RECURSIVE ValueList(_, _)
ValueList(ts, i) ==
    IF ~IsValue(Tk(ts, i)) THEN 0
    ELSE IF Tk(ts, i + 1) = "Comma" THEN ValueList(ts, i + 2) ELSE i + 1
\* assign (',' assign)*, assign ::= IDENT '=' value
RECURSIVE AssignList(_, _)
AssignList(ts, i) ==
    IF ~(Tk(ts, i) = "Ident" /\ Tk(ts, i + 1) = "Eq" /\ IsValue(Tk(ts, i + 2))) THEN 0
    ELSE IF Tk(ts, i + 3) = "Comma" THEN AssignList(ts, i + 4) ELSE i + 3
\* cond ('AND' cond)* with at most n conditions, cond ::= IDENT op value
RECURSIVE CondList(_, _, _)
CondList(ts, i, n) ==
    IF n = 0 \/ ~(Tk(ts, i) = "Ident" /\ IsOp(Tk(ts, i + 1)) /\ IsValue(Tk(ts, i + 2)))
    THEN 0
    ELSE IF Tk(ts, i + 3) = "And" THEN CondList(ts, i + 4, n - 1) ELSE i + 3
\* [where], where ::= 'WHERE' cond ('AND' cond)*
OptWhere(ts, i) ==
    IF i = 0 THEN 0
    ELSE IF Tk(ts, i) = "Where" THEN CondList(ts, i + 1, MAX_WHERE_CONDS) ELSE i
\* rights ::= (READ | WRITE | ALL | IDENT) (',' ...)*
RECURSIVE RightsList(_, _)
RightsList(ts, i) ==
    IF Tk(ts, i) \notin {"Read", "Write", "All", "Ident"} THEN 0
    ELSE IF Tk(ts, i + 1) = "Comma" THEN RightsList(ts, i + 2) ELSE i + 1
\* ts[i..] continues with the token types in seq: the position behind them
Then(ts, i, seq) ==
    IF i # 0 /\ \A k \in 1..Len(seq) : Tk(ts, i + k - 1) = seq[k] THEN i + Len(seq) ELSE 0
\* 'SELECT' ('*' | IDENT (',' IDENT)*) 'FROM' IDENT [where]
SelectStmt(ts) ==
    OptWhere(ts, Then(ts, IF Tk(ts, 2) = "Star" THEN 3 ELSE IdentList(ts, 2),
                     <<"From", "Ident">>))
\* 'INSERT' 'INTO' IDENT '(' IDENT (',' IDENT)* ')' 'VALUES' '(' value (',' value)* ')'
InsertStmt(ts) ==
    LET cols == IF Then(ts, 2, <<"Into", "Ident", "LParen">>) = 0 THEN 0
                ELSE Then(ts, IdentList(ts, 5), <<"RParen", "Values", "LParen">>)
    IN  IF cols = 0 THEN 0 ELSE Then(ts, ValueList(ts, cols), <<"RParen">>)
\* 'DELETE' 'FROM' IDENT [where]
DeleteStmt(ts) == OptWhere(ts, Then(ts, 2, <<"From", "Ident">>))
\* 'UPDATE' IDENT 'SET' assign (',' assign)* [where]
UpdateStmt(ts) ==
    IF Then(ts, 2, <<"Ident", "Set">>) = 0 THEN 0 ELSE OptWhere(ts, AssignList(ts, 4))
\* 'GRANT' rights 'ON' NUMBER 'TO' NUMBER
GrantStmt(ts) == Then(ts, RightsList(ts, 2), <<"On", "Number", "To", "Number">>)

\* input is a statement of the grammar: one production matches all its tokens
InGrammar(input) ==
    LET ts  == TokensOf(input)
        end == CASE Tk(ts, 1) = "Select"   -> SelectStmt(ts)
                 [] Tk(ts, 1) = "Insert"   -> InsertStmt(ts)
                 [] Tk(ts, 1) = "Delete"   -> DeleteStmt(ts)
                 [] Tk(ts, 1) = "Update"   -> UpdateStmt(ts)
                 [] Tk(ts, 1) = "Show"     -> Then(ts, 2, <<"Tables">>)
                 [] Tk(ts, 1) = "Describe" -> Then(ts, 2, <<"Ident">>)
                 [] Tk(ts, 1) = "Grant"    -> GrantStmt(ts)
                 [] Tk(ts, 1) = "Revoke"   -> Then(ts, 2, <<"Number">>)
                 [] OTHER                  -> 0
    IN  end = Len(ts) + 1

\* C5: a call of query_execute on an input that is no statement of the
\* grammar returns a result with an error code and no rows, and leaves every
\* table (the schemas and the indexes with their records) as it was.
C5_NonGrammarIsError ==
    [][(result'.call = "query_execute" /\ nops' = nops + 1
        /\ ~InGrammar(result'.input)) =>
          /\ result'.error_code # VOS_OK
          /\ result'.rows = <<>>
          /\ db'.SCHEMAS = db.SCHEMAS
          /\ db'.INDEXES = db.INDEXES
          /\ db'.TABLE_COUNT = db.TABLE_COUNT]_vars

\* the row ids of the rows of table t, in scan order
RowIds(t) == LET s == btree_scan(db.INDEXES[t]) IN [i \in 1..Len(s) |-> s[i].key]

\* C10: from db_init on, db_next_row_id has returned 1, 2, 3, ... in this
\* order; no two rows of any tables carry the same row id, every row carries
\* an id that was handed out, and every id a delete freed lies below the
\* counter, so that it is never handed out again.
C10_RowIdsNeverReused ==
    /\ \A i \in 1..Len(db.issued) : db.issued[i] = i
    /\ db.GLOBAL_ROW_ID = Len(db.issued) + 1
    /\ \A t1, t2 \in 0..(db.TABLE_COUNT - 1) :
          \A i \in 1..Len(RowIds(t1)), j \in 1..Len(RowIds(t2)) :
              (t1 # t2 \/ i # j) => RowIds(t1)[i] # RowIds(t2)[j]
    /\ \A t \in 0..(db.TABLE_COUNT - 1) :
          \A i \in 1..Len(RowIds(t)) : RowIds(t)[i] \in 1..Len(db.issued)
    /\ \A id \in db.deleted : id < db.GLOBAL_ROW_ID

\* an INSERT that succeeds behind a DELETE and a failing INSERT: it gets the
\* id 5, the failing INSERT has used up 4, the DELETE has freed a smaller one
C10_InsertBehindDeleteAndFailure ==
    /\ result.call = "query_execute"
    /\ result.error_msg = "1 row inserted (row_id=5)"
    /\ \E id \in db.deleted :
          \A i \in 1..Len(RowIds(TABLE_ID_SYSTEM)) : RowIds(TABLE_ID_SYSTEM)[i] # id
    /\ db.issued = <<1, 2, 3, 4, 5>>
    /\ \A i \in 1..Len(RowIds(TABLE_ID_SYSTEM)) : RowIds(TABLE_ID_SYSTEM)[i] # 4

\* C6: a call of page_write_record that returns 0 leaves the allocator's set
\* of allocated blocks as it was before the call: the blocks allocated by
\* the call are free again and no block allocated before it was freed.
C6_FailedWriteRestoresAllocator ==
    [][(pres'.call = "page_write_record" /\ nops' = nops + 1 /\ pres'.ret = 0)
          => dev'.bitmap = dev.bitmap]_vars

\* The stored EncryptedRecord v no longer reads as db_insert_record wrote it
Altered(v) == <<v.iv, v.ciphertext, v.mac>> # v.wrote

\* The iv, ciphertext and mac of v are not together what db_insert_record
\* wrote for some record of table t
Forged(t, v) == <<t, v.iv, v.ciphertext, v.mac>> \notin db.written

\* The rows a SELECT of all of table t has to return when it leaves out the
\* stored records that Skip(v) holds of: the records the others were
\* encrypted from, in the order of the index.
RowsBut(t, Skip(_)) ==
    LET s       == btree_scan(db.INDEXES[t])
        Keep(e) == ~Skip(e.value)
        kept    == SelectSeq(s, Keep)
    IN  [i \in 1..Len(kept) |->
            RowClone(record_deserialize(kept[i].value.ciphertext.pt.data))]

\* C11 as stated: when the iv, the ciphertext or the mac of a stored record
\* differs from what db_insert_record wrote, db_get_record (db_decrypt_record)
\* returns None without running AES on it, a SELECT of the table returns the
\* intact rows and not that row, and nothing panics.
C11_AlteredIsUnreadable ==
    /\ ~panicked
    /\ (result.call = "db_get_record" /\ result.table_id = TABLE_ID_SYSTEM) =>
          \A v \in {btree_search(db.INDEXES[TABLE_ID_SYSTEM], result.row_id)} :
              (v # NullPtr /\ Altered(v)) => (result.rec = None /\ ~result.aes)
    /\ (result.call = "query_execute" /\ result.input \in TamperInputs
                                       /\ db.TABLE_COUNT > 0) =>
          /\ result.error_code = VOS_OK
          /\ result.rows = RowsBut(TABLE_ID_SYSTEM, Altered)

IsForged(v) == Forged(TABLE_ID_SYSTEM, v)

\* C11 amended: when the iv, ciphertext and mac of a stored record are not
\* together what db_insert_record wrote for a record of the table,
\* db_get_record (db_decrypt_record) returns None without running AES on it,
\* a SELECT of the table returns the other rows and not that row, and nothing
\* panics.
C11_ForgedIsUnreadable ==
    /\ ~panicked
    /\ (result.call = "db_get_record" /\ result.table_id = TABLE_ID_SYSTEM) =>
          \A v \in {btree_search(db.INDEXES[TABLE_ID_SYSTEM], result.row_id)} :
              (v # NullPtr /\ IsForged(v)) => (result.rec = None /\ ~result.aes)
    /\ (result.call = "query_execute" /\ result.input \in TamperInputs
                                       /\ db.TABLE_COUNT > 0) =>
          /\ result.error_code = VOS_OK
          /\ result.rows = RowsBut(TABLE_ID_SYSTEM, IsForged)

\* a SELECT has returned two rows of a table where a third is forged
C11_SelectLeavesOutForged ==
    /\ result.call = "query_execute"
    /\ result.input \in TamperInputs
    /\ Len(result.rows) = 2
    /\ \E v \in LiveValues(db.INDEXES[TABLE_ID_SYSTEM]) : IsForged(v) /\ v.mac # v.wrote[3]

\* C12: after db_insert_record(t, r) has accepted r, db_get_record(t, r.row_id)
\* returns a record equal to r; after db_update_encrypted(t, id, r') it
\* returns r' (with the row_id and table_id the update gave it); after
\* db_delete_record(t, id) it returns None.
C12_GetReturnsWhatWasStored ==
    [][(nops' = nops + 1 /\ ~panicked' /\ result'.error_code = VOS_OK) =>
          /\ result'.call = "db_insert_record" =>
                db_get_record(db', result'.table_id, result'.row_id) = result'.rec
          /\ result'.call = "db_update_encrypted" =>
                db_get_record(db', result'.table_id, result'.row_id)
                   = [result'.rec EXCEPT !.row_id = result'.row_id,
                                         !.table_id = result'.table_id]
          /\ result'.call = "db_delete_record" =>
                /\ ~db'.dangling
                /\ db_get_record(db', result'.table_id, result'.row_id) = None]_vars

\* C13: when db_insert_record or db_decrypt_record (called by db_get_record)
\* has returned, by whichever path, SERDE_BUF and CRYPTO_BUF hold no
\* plaintext and the MAC computed for the verification is zeroed.
C13_ScratchZeroedOnReturn ==
    /\ result.call = "db_insert_record" =>
          (db.SERDE_BUF = ZeroBuf /\ db.CRYPTO_BUF = ZeroBuf)
    /\ result.call = "db_get_record" =>
          /\ db.SERDE_BUF = ZeroBuf /\ db.CRYPTO_BUF = ZeroBuf
          /\ result.computed_mac = ZeroMac

\* ------------------------------------------------------------------------
\* Rows stored by statements
\* ------------------------------------------------------------------------

\* the records the index of table t holds, decrypted
StoredIn(d, t) ==
    {db_decrypt_record(d, t, v) : v \in LiveValues(d.INDEXES[t])} \ {None}
StoredRecords(t) == StoredIn(db, t)

\* C14: after any sequence of INSERT and UPDATE statements executed through
\* query_execute, every stored record has field_count <= the column_count
\* of its table, and every present field carries the value type of its
\* schema column.
C14_FieldsTypedAsColumns ==
    \A t \in 0..(db.TABLE_COUNT - 1) : \A rec \in StoredRecords(t) :
        /\ rec.field_count <= db.SCHEMAS[t].column_count
        /\ \A i \in 0..(rec.field_count - 1) :
              rec.fields[i] # None => rec.fields[i].t = db.SCHEMAS[t].columns[i].col_type

\* every statement callers submit
Statements == QueryInputs \cup TamperInputs \cup RowInputs \cup GrantInputs

\* the tokens of input with their text, in order, up to Eof
RECURSIVE LexFrom(_)
LexFrom(p) ==
    IF p.current.ttype = "Eof" THEN <<>>
    ELSE <<[ttype |-> p.current.ttype, value |-> p.current.value]>> \o LexFrom(next_token(p))
LexOf(input) == LexFrom(Parser_new(input))

\* the tokens of every statement, and the statements of the grammar
Lexed == [input \in Statements |-> LexOf(input)]
Grammatical == {input \in Statements : InGrammar(input)}

\* the statement result reports: query_execute has returned from a
\* statement that begins with the keyword kw
Executed(res, kw) ==
    /\ res.call = "query_execute"
    /\ Lexed[res.input] # <<>>
    /\ Lexed[res.input][1].ttype = kw

\* the record rec of a table with schema sch carries the columns INSERT
\* fills in for the caller pid
AutoFilled(rec, sch, pid) ==
    LET owner_idx == find_column_index(sch, "owner_pid")
        size_idx  == find_column_index(sch, "size")
        data_idx  == find_column_index(sch, "data")
    IN  /\ sch.columns[0].primary_key => rec.fields[0] = FU64(rec.row_id)
        /\ owner_idx >= 0 => rec.fields[owner_idx] = FU64(pid)
        /\ (size_idx >= 0 /\ data_idx >= 0 /\ rec.fields[data_idx] # None)
              => rec.fields[size_idx] = FU64(Len(rec.fields[data_idx].s))

\* C15: the row a successful INSERT stores has, whatever columns and values
\* the statement lists, its first column equal to its row_id when that
\* column is the primary key, its owner_pid column equal to the caller pid,
\* and its size column equal to the byte length of its data field.
C15_InsertAutoFills ==
    [][(Executed(result', "Insert") /\ nops' = nops + 1 /\ result'.error_code = VOS_OK) =>
          LET id == db'.issued[Len(db'.issued)]
          IN  \E t \in 0..(db'.TABLE_COUNT - 1) :
                  /\ \E rec \in StoredIn(db', t) : rec.row_id = id
                  /\ \A rec \in StoredIn(db', t) :
                        rec.row_id = id => AutoFilled(rec, db'.SCHEMAS[t], result'.pid)]_vars

\* ------------------------------------------------------------------------
\* Conditions of a statement, read off its tokens by the grammar
\* ------------------------------------------------------------------------

\* positions of the tokens of type ttype
Positions(lx, ttype) == {i \in 1..Len(lx) : lx[i].ttype = ttype}

\* the conditions of a statement of the grammar: cond ::= IDENT op value,
\* the first behind WHERE and one more behind every AND
WhereConds(lx) ==
    {[column |-> lx[i + 1].value, op |-> lx[i + 2].ttype, value |-> lx[i + 3]] :
        i \in Positions(lx, "Where") \cup Positions(lx, "And")}

\* the table a SELECT, DELETE or UPDATE names: the identifier behind FROM
\* or behind UPDATE; table names are case-insensitive
NamedTable(d, lx) ==
    LET at   == IF lx[1].ttype = "Update" THEN 2 ELSE SetMin(Positions(lx, "From")) + 1
        hits == {t \in 0..(d.TABLE_COUNT - 1) :
                    str_eq_ignore_case(d.SCHEMAS[t].name, lx[at].value)}
    IN  IF hits = {} THEN -1 ELSE SetMin(hits)

\* a sorts before b in the byte-wise lexicographic order
LexLess(a, b) ==
    \/ Len(a) < Len(b) /\ \A k \in 1..Len(a) : Ch(a, k) = Ch(b, k)
    \/ \E i \in 1..Min2(Len(a), Len(b)) :
          /\ \A k \in 1..(i - 1) : Ch(a, k) = Ch(b, k)
          /\ Ord(Ch(a, i)) < Ord(Ch(b, i))

\* the comparison op on two values of an order with the relation less
Compares(op, equal, less, greater) ==
    CASE op = "Eq"  -> equal
      [] op = "Neq" -> ~equal
      [] op = "Lt"  -> less
      [] op = "Gt"  -> greater
      [] op = "Le"  -> less \/ equal
      [] op = "Ge"  -> greater \/ equal

\* the operator/type matrix of the predicate semantics: the field f stands
\* in the relation op to the literal lit
FieldHolds(f, op, lit) ==
    CASE f.t = "Str" /\ lit.ttype = "StringLit" ->
            Compares(op, f.s = lit.value, LexLess(f.s, lit.value), LexLess(lit.value, f.s))
      [] f.t \in {"U64", "U32"} /\ lit.ttype = "Number" ->
            Compares(op, f.v = parse_u64(lit.value), f.v < parse_u64(lit.value),
                     f.v > parse_u64(lit.value))
      [] f.t = "Bool" /\ lit.ttype = "Number" ->
            op \in {"Eq", "Neq"}
            /\ Compares(op, (IF f.v THEN 1 ELSE 0) = parse_u64(lit.value), FALSE, FALSE)
      [] f.t = "Bool" /\ lit.ttype = "StringLit" ->
            op \in {"Eq", "Neq"}
            /\ Compares(op, f.v = (str_eq_ignore_case(lit.value, "true") \/ lit.value = "1"),
                        FALSE, FALSE)
      [] f.t = "U64" /\ lit.ttype = "StringLit" ->
            op \in {"Eq", "Neq"} /\ Compares(op, f.v = parse_u64(lit.value), FALSE, FALSE)
      [] OTHER -> FALSE

\* the condition c holds of the record rec of a table with schema sch: the
\* field of the column c names is present and stands in the relation
CondHolds(rec, sch, c) ==
    \E i \in 0..(sch.column_count - 1) :
        /\ sch.columns[i].name = c.column
        /\ rec.fields[i] # None
        /\ FieldHolds(rec.fields[i], c.op, c.value)

\* the rows of table t of d for which every condition of the statement holds
Matching(d, t, lx) ==
    {rec \in StoredIn(d, t) : \A c \in WhereConds(lx) : CondHolds(rec, d.SCHEMAS[t], c)}

\* C16: a SELECT statement of the grammar (WHERE c1 AND ... AND cn with at
\* most MAX_WHERE_CONDS conditions) on a table returns exactly the rows of
\* the table for which every condition holds, each once, and every row
\* without WHERE; a row whose field for a conditioned column is absent is
\* left out, and the statement returns error_code OK.
C16_SelectReturnsMatchingRows ==
    [][(Executed(result', "Select") /\ nops' = nops + 1 /\ result'.input \in Grammatical
        /\ NamedTable(db, Lexed[result'.input]) >= 0) =>
          LET lx == Lexed[result'.input]
              t  == NamedTable(db, lx)
          IN  /\ result'.error_code = VOS_OK
              /\ {result'.rows[i] : i \in 1..Len(result'.rows)}
                    = {RowClone(rec) : rec \in Matching(db, t, lx)}
              /\ Len(result'.rows) = Cardinality(Matching(db, t, lx))]_vars

\* a SELECT with two conditions has returned the one row both hold of and
\* left out a row whose data field is absent
C16_SelectLeavesOutAbsentField ==
    /\ Executed(result, "Select")
    /\ Cardinality(WhereConds(Lexed[result.input])) = 2
    /\ Len(result.rows) = 1
    /\ \E rec \in StoredRecords(NamedTable(db, Lexed[result.input])) : rec.fields[3] = None

\* the columns an UPDATE statement of the grammar assigns: the identifiers
\* of assign ::= IDENT '=' value between SET and WHERE
AssignedColumns(lx) ==
    LET last == IF Positions(lx, "Where") = {} THEN Len(lx)
                ELSE SetMin(Positions(lx, "Where")) - 1
    IN  {lx[i].value : i \in {k \in 3..(last - 2) : /\ lx[k].ttype = "Ident"
                                                       /\ lx[k + 1].ttype = "Eq"}}

\* new is old with at most the columns named in cols changed
SameBut(old, new, sch, cols) ==
    /\ new.row_id = old.row_id
    /\ new.table_id = old.table_id
    /\ new.field_count = old.field_count
    /\ \A i \in ColIdx : sch.columns[i].name \notin cols => new.fields[i] = old.fields[i]

\* C17: UPDATE T SET c = v WHERE cond changes, in every row matching cond,
\* only the assigned columns: the row keeps its row_id, its primary-key
\* value and all its other columns; every row not matching cond decrypts
\* to the same record as before the statement.
C17_UpdateChangesAssignedOnly ==
    [][(Executed(result', "Update") /\ nops' = nops + 1 /\ result'.input \in Grammatical
        /\ NamedTable(db, Lexed[result'.input]) >= 0) =>
          LET lx == Lexed[result'.input]
              t  == NamedTable(db, lx)
          IN  \A old \in StoredIn(db, t) :
                  IF old \in Matching(db, t, lx)
                  THEN \E new \in StoredIn(db', t) :
                          SameBut(old, new, db.SCHEMAS[t], AssignedColumns(lx))
                  ELSE old \in StoredIn(db', t)]_vars

\* C18: after DELETE FROM T WHERE cond has completed, a SELECT from T with
\* the same cond returns 0 rows; the rows of T that did not match cond are
\* all still stored and unchanged; the reported count is the number of rows
\* that matched; and the rows deleted are the rows that matched in the tree
\* of before the statement: none was removed before the scan had finished.
C18_DeleteRemovesMatchingOnly ==
    [][(Executed(result', "Delete") /\ nops' = nops + 1 /\ result'.input \in Grammatical
        /\ NamedTable(db, Lexed[result'.input]) >= 0) =>
          LET lx == Lexed[result'.input]
              t  == NamedTable(db, lx)
          IN  /\ result'.error_code = VOS_OK
              /\ \A c \in DeleteTargets : result'.input = "DELETE FROM " \o c =>
                    \A rnd \in Rnds :
                       LET sel == query_execute(db', "SELECT * FROM " \o c, result'.pid, rnd, 0)
                       IN  sel.result.error_code = VOS_OK /\ sel.result.rows = <<>>
              /\ StoredIn(db', t) = StoredIn(db, t) \ Matching(db, t, lx)
              /\ result'.error_msg
                    = "row(s) deleted: " \o write_u64_to_buf(Cardinality(Matching(db, t, lx)))]_vars

\* a DELETE on the system table has deleted three rows, one of them held
\* by an internal node of the index, and left two
C18_DeletedThreeOfFive ==
    /\ Executed(result, "Delete")
    /\ result.error_msg = "row(s) deleted: 3"
    /\ ~db.INDEXES[TABLE_ID_SYSTEM].root.is_leaf
    /\ Cardinality(StoredRecords(TABLE_ID_SYSTEM)) = 2

\* the master key the stored EncryptedRecord v was encrypted under
MasterOf(v) == v.mac.key.key
UnderOtherKey(v) == MasterOf(v) # db.MASTER_DB_KEY

\* C19: after the master key has been replaced by a different key and the
\* per-table keys have been re-derived (db_rederive_table_keys, or the
\* registration of a warm boot), every read of a record encrypted under the
\* old key fails MAC verification: db_get_record returns None, without
\* running AES, and SELECT returns no such row (and the rows encrypted under
\* the new key).
C19_OldKeyRecordsUnreadable ==
    /\ (result.call = "db_get_record" /\ result.table_id < db.TABLE_COUNT
                                      /\ ~db.key_changed) =>
          \A v \in {btree_search(db.INDEXES[result.table_id], result.row_id)} :
              (v # NullPtr /\ UnderOtherKey(v)) => (result.rec = None /\ ~result.aes)
    /\ (result.call = "query_execute" /\ result.input \in RekeyInputs
                                      /\ db.TABLE_COUNT > 0 /\ ~db.key_changed) =>
          /\ result.error_code = VOS_OK
          /\ result.rows = RowsBut(TABLE_ID_SYSTEM, UnderOtherKey)

\* a SELECT behind a change of the master key has returned the one row
\* inserted since and none of the rows encrypted under the old key
C19_SelectReturnsNewRowOnly ==
    /\ result.call = "query_execute"
    /\ result.input \in RekeyInputs
    /\ ~db.key_changed
    /\ Len(result.rows) = 1
    /\ \E v \in LiveValues(db.INDEXES[TABLE_ID_SYSTEM]) : UnderOtherKey(v)

\* C20: after any sequence of db_create_table, db_init_system_tables and
\* db_register_system_tables calls, no two registered tables have names
\* that are equal ignoring case: a table name identifies at most one table.
C20_TableNamesUnique ==
    \A i, j \in 0..(db.TABLE_COUNT - 1) :
        i # j => ~str_eq_ignore_case(db.SCHEMAS[i].name, db.SCHEMAS[j].name)

\* the names of the six well-known tables, in the order of their ids
WellKnownTables ==
    <<"SystemTable", "ProcessTable", "CapabilityTable", "ObjectTable", "MessageTable",
      "AuditTable">>

\* the first call behind db_init was db_init_system_tables or
\* db_register_system_tables
Booted ==
    /\ nops = 1
    /\ result.call \in {"db_init_system_tables", "db_register_system_tables"}

\* C21: after db_init followed by db_init_system_tables or by
\* db_register_system_tables, the tables 0..5 are SystemTable, ProcessTable,
\* CapabilityTable, ObjectTable, MessageTable, AuditTable in this order, the
\* table_id of each schema is its slot index, and the table count is 6.
C21_WellKnownTablesInOrder ==
    Booted =>
       /\ db.TABLE_COUNT = 6
       /\ \A i \in 0..5 :
             /\ db.SCHEMAS[i] # None
             /\ db.SCHEMAS[i].name = WellKnownTables[i + 1]
             /\ db.SCHEMAS[i].table_id = i

\* a warm-boot registration was the first call behind db_init
C21_RegisteredFirst == Booted /\ result.call = "db_register_system_tables" /\ db.TABLE_COUNT > 0

\* the key columns of the boot metadata, in the order of insertion
BootKeys == <<"os.name", "os.version", "os.philosophy">>

\* C22: after db_init and db_init_system_tables (cold boot), the index of
\* every other system table is empty, and SELECT * FROM SystemTable returns
\* exactly 3 rows, with the row ids 1, 2, 3 and the key columns "os.name",
\* "os.version", "os.philosophy" in this order.
C22_ColdBootSeedsThreeRows ==
    /\ (nops = 0 /\ result.call = "db_init_system_tables") =>
          /\ Len(btree_scan(db.INDEXES[TABLE_ID_SYSTEM])) = 3
          /\ \A t \in 1..5 : btree_scan(db.INDEXES[t]) = <<>>
    /\ (nops = 1 /\ result.call = "query_execute" /\ result.input \in TamperInputs
                 /\ db.TABLE_COUNT > 0) =>
          /\ result.error_code = VOS_OK
          /\ Len(result.rows) = 3
          /\ \A i \in 1..3 :
                /\ result.rows[i].row_id = i
                /\ result.rows[i].fields[0] = FU64(i)
                /\ result.rows[i].fields[1] = FStr(BootKeys[i])
          /\ \A t \in 1..5 : btree_scan(db.INDEXES[t]) = <<>>

\* the first statement behind a cold boot was SELECT * FROM SystemTable
C22_SelectedBehindColdBoot ==
    /\ nops = 1
    /\ result.call = "query_execute"
    /\ result.input \in TamperInputs
    /\ Len(result.rows) > 0

\* C23: db_register_system_tables registers schemas and derives their keys
\* but inserts no record: when it returns, the index of every table it
\* registered is empty, the tables registered before are as they were, and
\* GLOBAL_ROW_ID has the value it had before the call.
C23_RegistrationInsertsNothing ==
    [][(result'.call = "db_register_system_tables" /\ nops' = nops + 1) =>
          /\ db'.GLOBAL_ROW_ID = db.GLOBAL_ROW_ID
          /\ db'.TABLE_COUNT >= db.TABLE_COUNT
          /\ \A t \in db.TABLE_COUNT..(db'.TABLE_COUNT - 1) :
                /\ db'.SCHEMAS[t] # None
                /\ db'.TABLE_AES_KEYS[t] # None
                /\ db'.TABLE_MAC_CTXS[t] # None
                /\ db'.INDEXES[t] # None
                /\ db'.INDEXES[t].count = 0
                /\ btree_scan(db'.INDEXES[t]) = <<>>
          /\ \A t \in 0..(db.TABLE_COUNT - 1) : db'.INDEXES[t] = db.INDEXES[t]]_vars

\* a registration on an engine that holds the three boot records has
\* returned, with the row id counter still at 4
C23_RegisteredBehindBootRecords ==
    /\ result.call = "db_register_system_tables"
    /\ nops > 1
    /\ db.GLOBAL_ROW_ID = 4
    /\ Len(btree_scan(db.INDEXES[TABLE_ID_SYSTEM])) = 3

\* C24: a GRANT or REVOKE statement, well-formed or not, changes no table's
\* index, no stored record, neither the table count nor GLOBAL_ROW_ID; a
\* well-formed one returns error_code OK with no rows and a message, a
\* malformed one returns ERR_SYNTAX.
C24_GrantRevokeChangeNothing ==
    [][((Executed(result', "Grant") \/ Executed(result', "Revoke")) /\ nops' = nops + 1) =>
          /\ db'.INDEXES = db.INDEXES
          /\ db'.SCHEMAS = db.SCHEMAS
          /\ db'.TABLE_COUNT = db.TABLE_COUNT
          /\ db'.GLOBAL_ROW_ID = db.GLOBAL_ROW_ID
          /\ result'.rows = <<>>
          /\ IF result'.input \in Grammatical
             THEN result'.error_code = VOS_OK /\ result'.error_msg # ""
             ELSE result'.error_code = VOS_ERR_SYNTAX]_vars

\* ------------------------------------------------------------------------
\* storage/page_io.rs: node pages
\* ------------------------------------------------------------------------

PAGE_NODE_MAGIC == 1313817669

\* The n bytes of x, least significant first
RECURSIVE le_bytes(_, _)
le_bytes(x, n) ==
    IF n = 0 THEN <<>> ELSE <<x % 256>> \o le_bytes(x \div 256, n - 1)

\* The value the bytes bs hold, least significant first
RECURSIVE le_value(_)
le_value(bs) ==
    IF bs = <<>> THEN 0 ELSE bs[1] + 256 * le_value(Tail(bs))

\* The u64 entries i..n-1 of an array, as bytes
RECURSIVE le_words(_, _, _)
le_words(arr, i, n) ==
    IF i >= n THEN <<>> ELSE le_bytes(arr[i], 8) \o le_words(arr, i + 1, n)

\* struct NodePage as the bytes of its block: magic, num_keys, is_leaf,
\* table_id, pad, checksum, keys, value_lbas, child_lbas, reserved
NodePage(pg) ==
    le_bytes(pg.magic, 4) \o le_bytes(pg.num_keys, 4)
    \o <<pg.is_leaf, pg.table_id, 0, 0>> \o le_bytes(pg.checksum, 4)
    \o le_words(pg.keys, 0, BTREE_MAX_KEYS)
    \o le_words(pg.value_lbas, 0, BTREE_MAX_KEYS)
    \o le_words(pg.child_lbas, 0, BTREE_ORDER)
    \o [i \in 1..NodeReserved |-> 0]

\* The bytes of a block: those of the node page it holds, zeroes if it was
\* never written
BlockBytes(blk) ==
    IF "bytes" \in DOMAIN blk THEN blk.bytes
    ELSE NodePage([magic |-> 0, num_keys |-> 0, is_leaf |-> 0, table_id |-> 0,
                   checksum |-> 0, keys |-> [i \in KeyIdx |-> 0],
                   value_lbas |-> [i \in KeyIdx |-> 0],
                   child_lbas |-> [i \in ChildIdx |-> 0]])

\* The sum of the bytes at offsets lo..hi-1 of a page, those of the checksum
\* field left out
RECURSIVE sum_bytes(_, _, _)
sum_bytes(data, lo, hi) ==
    IF hi <= lo THEN 0
    ELSE IF hi = lo + 1
    THEN (IF lo >= 12 /\ lo < 16 THEN 0 ELSE data[lo + 1])
    ELSE LET mid == (lo + hi) \div 2
         IN  sum_bytes(data, lo, mid) + sum_bytes(data, mid, hi)

\* compute_node_checksum(pg): the sum of the bytes of the page but those at
\* offsets 12..15.  The u32 sum of the 4092 bytes of a block is at most
\* 4092 * 255, so wrapping_add never wraps.
compute_node_checksum_used(data) ==
    sum_bytes(data, 0, Len(data) - NodeReserved)
compute_node_checksum(data) == sum_bytes(data, 0, Len(data))

\* page_write_node writing the page to the block before the one it allocated
page_write_node_in_place(dv, node, table_id, ok) ==
    LET a    == disk_alloc_block(dv)
        prev == ((a.block + NumBlocks - 2) % NumBlocks) + 1
    IN  IF a.block = 0 THEN [dev |-> dv, block |-> 0]
        ELSE IF ~ok THEN [dev |-> disk_free_block(a.dev, a.block), block |-> 0]
        ELSE [dev |-> disk_write_block(a.dev, prev,
                         [bytes |-> NodePage(
                            [magic |-> PAGE_NODE_MAGIC,
                             num_keys |-> node.num_keys,
                             is_leaf |-> IF node.is_leaf THEN 1 ELSE 0,
                             table_id |-> table_id % 256, checksum |-> 0,
                             keys |-> [i \in KeyIdx |-> 0],
                             value_lbas |-> [i \in KeyIdx |-> 0],
                             child_lbas |-> [i \in ChildIdx |-> 0]])], TRUE),
              block |-> a.block]

\* page_write_node(node, table_id) when the device accepts the write (ok) or
\* answers with an IO error: the device after it and the block returned
page_write_node(dv, node, table_id, ok) ==
    LET a  == disk_alloc_block(dv)
        pg == [magic |-> PAGE_NODE_MAGIC, num_keys |-> node.num_keys,
               is_leaf |-> IF node.is_leaf THEN 1 ELSE 0,
               table_id |-> table_id % 256, checksum |-> 0,
               keys |-> [i \in KeyIdx |->
                           IF i < node.num_keys THEN node.keys[i] ELSE 0],
               value_lbas |-> [i \in KeyIdx |->
                           IF i < node.num_keys THEN node.value_lbas[i] ELSE 0],
               child_lbas |-> [i \in ChildIdx |->
                           IF ~node.is_leaf /\ i <= node.num_keys
                           THEN node.child_lbas[i] ELSE 0]]
        sum == compute_node_checksum(NodePage(pg))
    IN  IF a.block = 0 THEN [dev |-> dv, block |-> 0]
        ELSE IF ~ok THEN [dev |-> disk_free_block(a.dev, a.block), block |-> 0]
        ELSE [dev |-> disk_write_block(a.dev, a.block,
                         [bytes |-> NodePage([pg EXCEPT !.checksum = sum])], TRUE),
              block |-> a.block]

\* The u64 at byte offset off of a page
u64_at(data, off) == le_value(SubSeq(data, off + 1, off + 8))

\* The node page_read_node fills from a page that passed its tests
node_from_page(data, block, node) ==
    LET num_keys == le_value(SubSeq(data, 5, 8))
        is_leaf  == data[9] # 0
    IN  [node EXCEPT
           !.num_keys = num_keys,
           !.is_leaf = is_leaf,
           !.disk_lba = block,
           !.dirty = FALSE,
           !.keys = [i \in KeyIdx |->
                       IF i < num_keys THEN u64_at(data, 16 + 8 * i) ELSE @[i]],
           !.value_lbas = [i \in KeyIdx |->
                       IF i < num_keys
                       THEN u64_at(data, 16 + 8 * BTREE_MAX_KEYS + 8 * i)
                       ELSE @[i]],
           !.child_lbas = [i \in ChildIdx |->
                       IF ~is_leaf /\ i <= num_keys
                       THEN u64_at(data, 16 + 16 * BTREE_MAX_KEYS + 8 * i)
                       ELSE @[i]]]

\* page_read_node(block, node, table_id_out) when the device answers the read
\* (ok) or fails it: the code returned, the caller's node and table id after
\* the call, and whether the copy loops left the node's arrays
page_read_node(dv, block, node, table_id_out, ok) ==
    LET data == BlockBytes(disk_read_block(dv, block, ok))
        fail(code) == [ret |-> code, node |-> node,
                       table_id_out |-> table_id_out, panicked |-> FALSE]
    IN  IF ~ok THEN fail(VOS_ERR_IO)
        ELSE IF SubSeq(data, 1, 4) # le_bytes(PAGE_NODE_MAGIC, 4)
        THEN fail(VOS_ERR_INVAL)
        ELSE IF SubSeq(data, 13, 16) # le_bytes(compute_node_checksum(data), 4)
        THEN fail(VOS_ERR_INVAL)
        ELSE IF SubSeq(data, 6, 8) # <<0, 0, 0>> \/ data[5] > BTREE_MAX_KEYS
        THEN [ret |-> VOS_OK, node |-> node, table_id_out |-> table_id_out,
              panicked |-> TRUE]
        ELSE [ret |-> VOS_OK, node |-> node_from_page(data, block, node),
              table_id_out |-> data[10], panicked |-> FALSE]

\* The nodes written to pages: a leaf, an internal node, a full leaf
NodeSamples ==
    {[BtreeNode_new(TRUE) EXCEPT
        !.num_keys = 2, !.keys[0] = 1, !.keys[1] = 2,
        !.value_lbas[0] = 3, !.value_lbas[1] = 4],
     [BtreeNode_new(FALSE) EXCEPT
        !.num_keys = 1, !.keys[0] = 300, !.value_lbas[0] = 2,
        !.child_lbas[0] = 1, !.child_lbas[1] = 3],
     [BtreeNode_new(TRUE) EXCEPT
        !.num_keys = BTREE_MAX_KEYS, !.keys = [i \in KeyIdx |-> i + 1],
        !.value_lbas = [i \in KeyIdx |-> 70000 + i]]}

\* The table ids the nodes are written under: one that fits a byte, one that
\* does not
NodeTableIds == {3, 259}

\* The nodes a caller hands to page_read_node
CallerNodes == {BtreeNode_new(TRUE)} \cup NodeSamples

\* The amounts by which a byte of a written page is changed
ByteChanges == {1, 255}

PageWriteNode ==
    /\ nops < MaxNodeOps
    /\ nops' = nops + 1
    /\ \E node \in NodeSamples, table_id \in NodeTableIds, ok \in BOOLEAN :
          \E r \in {page_write_node(dev, node, table_id, ok)} :
              /\ dev' = r.dev
              /\ pres' = [call |-> "page_write_node", ret |-> r.block,
                          records |-> IF r.block # 0
                                      THEN pres.records \cup {r.block}
                                      ELSE pres.records]
    /\ UNCHANGED <<btVars, dbVars, panicked>>

\* One byte of a block that page_write_node wrote takes another value.
ChangeByte ==
    /\ nops < MaxNodeOps
    /\ nops' = nops + 1
    /\ \E block \in pres.records, change \in ByteChanges :
          \E i \in 1..Len(dev.blocks[block].bytes) :
              /\ dev' = [dev EXCEPT !.blocks[block].bytes[i] = (@ + change) % 256]
              /\ pres' = [call |-> "change_byte", ret |-> 0,
                          records |-> pres.records \ {block}]
    /\ UNCHANGED <<btVars, dbVars, panicked>>

PageReadNode ==
    /\ ~panicked
    /\ nops < MaxNodeOps
    /\ nops' = nops + 1
    /\ \E block \in Blocks, node \in CallerNodes, ok \in BOOLEAN :
          \E r \in {page_read_node(dev, block, node, 0, ok)} :
              /\ panicked' = r.panicked
              /\ pres' = [call |-> "page_read_node", ret |-> r.ret,
                          records |-> pres.records, block |-> block, ok |-> ok,
                          table_id_out |-> r.table_id_out,
                          before |-> node, node |-> r.node]
    /\ UNCHANGED <<btVars, dbVars, dev>>

NodeNext == PageWriteNode \/ ChangeByte \/ PageReadNode

\* Any sequence of node writes, single-byte changes of written pages and
\* node reads on a formatted device.
SpecNode == Init /\ [][NodeNext]_vars

\* The pages page_write_node writes on a formatted device
WrittenPages ==
    {page_write_node(disk_init, node, table_id, TRUE).dev.blocks[1].bytes :
        node \in NodeSamples, table_id \in NodeTableIds}

\* The sum of the bytes data[lo..hi]
RECURSIVE ByteSum(_, _, _)
ByteSum(data, lo, hi) ==
    IF lo > hi THEN 0
    ELSE IF lo = hi THEN data[lo]
    ELSE ByteSum(data, lo, (lo + hi) \div 2)
         + ByteSum(data, (lo + hi) \div 2 + 1, hi)

\* The block's magic is not "NODE", or the checksum it stores (bytes 12..15)
\* is not the sum of its other bytes.
BadNodePage(data) ==
    LET sum == ByteSum(data, 1, 12) + ByteSum(data, 17, Len(data))
    IN  \/ SubSeq(data, 1, 4) # <<69, 68, 79, 78>>
        \/ SubSeq(data, 13, 16) # <<sum % 256, (sum \div 256) % 256,
                                    (sum \div 65536) % 256, sum \div 16777216>>

\* The block is a page page_write_node wrote but for a single byte.
OneByteChanged(data) ==
    \E page \in WrittenPages :
        Cardinality({i \in 1..Len(page) : data[i] # page[i]}) = 1

\* C25: page_read_node of a block that the device hands over returns
\* VOS_ERR_INVAL when the block's magic is not "NODE" or its stored checksum
\* is not the sum of its other bytes, as it is for every page that
\* page_write_node wrote and of which a single byte was changed; and whenever
\* page_read_node returns an error the caller's node is as it was.
C25_BadNodePagesRejected ==
    pres.call = "page_read_node" =>
        LET data == BlockBytes(dev.blocks[pres.block])
        IN  /\ OneByteChanged(data) => BadNodePage(data)
            /\ (pres.ok /\ BadNodePage(data)) => pres.ret = VOS_ERR_INVAL
            /\ pres.ret # VOS_OK => pres.node = pres.before /\ ~panicked

\* A read into a node with keys is refused for a written page whose magic
\* is intact and of which one byte was changed.
C25_ChangedPageRefused ==
    /\ pres.call = "page_read_node"
    /\ pres.ok
    /\ pres.ret = VOS_ERR_INVAL
    /\ pres.before.num_keys > 0
    /\ pres.node = pres.before
    /\ OneByteChanged(BlockBytes(dev.blocks[pres.block]))
    /\ SubSeq(BlockBytes(dev.blocks[pres.block]), 1, 4) = <<69, 68, 79, 78>>

\* The keys of the subtree of node lie strictly between lo and hi, the keys
\* of each of its nodes ascend strictly, and an internal node with n keys
\* has n + 1 children.
RECURSIVE SubtreeOrdered(_, _, _)
SubtreeOrdered(node, lo, hi) ==
    /\ \A i \in 0..(node.num_keys - 1) : lo < node.keys[i] /\ node.keys[i] < hi
    /\ \A i \in 1..(node.num_keys - 1) : node.keys[i - 1] < node.keys[i]
    /\ \/ node.is_leaf
       \/ \A i \in 0..node.num_keys :
             /\ node.children[i] # NullNode
             /\ SubtreeOrdered(node.children[i],
                               IF i = 0 THEN lo ELSE node.keys[i - 1],
                               IF i = node.num_keys THEN hi ELSE node.keys[i])

\* The depths at which the leaves of the subtree of node lie
RECURSIVE LeafDepths(_)
LeafDepths(node) ==
    IF node = NullNode THEN {}
    ELSE IF node.is_leaf THEN {0}
    ELSE UNION {{d + 1 : d \in LeafDepths(node.children[i])} :
                   i \in 0..node.num_keys}

\* C26: after any sequence of btree_insert and btree_delete calls the keys
\* of every node ascend strictly, the keys of the subtree children[i] lie
\* strictly between keys[i-1] and keys[i], the root has at most
\* BTREE_MAX_KEYS keys, an internal node with n keys has n + 1 children, and
\* all leaves are at the same depth.
C26_TreeWellFormed ==
    ~panicked =>
        /\ SubtreeOrdered(tree.root, 0, MaxKey + MaxAscKey + 1)
        /\ tree.root.num_keys <= BTREE_MAX_KEYS
        /\ Cardinality(LeafDepths(tree.root)) = 1

\* The keys in the slots of the tree
StoredKeys ==
    LET ks == SlotKeys(tree.root) IN {ks[i] : i \in 1..Len(ks)}

\* The keys of the next btree_insert of a tree that grows at both ends: the
\* key below the least, the key above the greatest, the least once more.
GrowingKeys ==
    IF StoredKeys = {} THEN {MaxGrowOps}
    ELSE {SetMin(StoredKeys) - 1, SetMin(StoredKeys), SetMax(StoredKeys) + 1}

InsertGrowing ==
    /\ ~panicked
    /\ nops < MaxGrowOps
    /\ nops' = nops + 1
    /\ \E k \in GrowingKeys \cap (1..(2 * MaxGrowOps)) : BtInsertCall(k, Val(1))
    /\ UNCHANGED <<dbVars, pgVars>>

\* btree_insert calls only, on one tree, to a depth of three levels.
SpecInsertOnly == Init /\ [][InsertGrowing]_vars

\* The nodes of the subtree of node but node itself
RECURSIVE NodesBelow(_)
NodesBelow(node) ==
    IF node = NullNode \/ node.is_leaf THEN {}
    ELSE UNION {{node.children[i]} \cup NodesBelow(node.children[i]) :
                   i \in {j \in 0..node.num_keys : node.children[j] # NullNode}}

\* C27: after btree_insert calls only, every node other than the root holds
\* at least BTREE_MIN_KEYS and at most BTREE_MAX_KEYS keys.
C27_InsertsKeepNodesHalfFull ==
    ~panicked =>
        \A node \in NodesBelow(tree.root) :
            BTREE_MIN_KEYS <= node.num_keys /\ node.num_keys <= BTREE_MAX_KEYS

\* A tree of three levels with a node that a split left with exactly
\* BTREE_MIN_KEYS keys.
C27_ThreeLevelsAfterSplits ==
    /\ ~panicked
    /\ ~tree.root.is_leaf
    /\ ~tree.root.children[0].is_leaf
    /\ \E node \in NodesBelow(tree.root) : node.num_keys = BTREE_MIN_KEYS

\* A leaf with one key above base
SplitLeaf(base) ==
    [BtreeNode_new(TRUE) EXCEPT
        !.num_keys = 1, !.keys[0] = base + 2, !.values[0] = Val(base + 2),
        !.value_lbas[0] = 500 + base, !.disk_lba = base + 1, !.dirty = FALSE]

\* A full node with its keys above base, a leaf or an internal node over
\* leaves; the value of its second key is deleted
SplitChildNode(is_leaf, base, dirty) ==
    [BtreeNode_new(is_leaf) EXCEPT
        !.num_keys = BTREE_MAX_KEYS,
        !.keys = [j \in KeyIdx |-> base + 10 * (j + 1)],
        !.values = [j \in KeyIdx |->
                      IF j = 1 THEN NullPtr ELSE Val(base + 10 * (j + 1))],
        !.value_lbas = [j \in KeyIdx |-> IF j = 1 THEN 0 ELSE 500 + base + 10 * (j + 1)],
        !.children = [j \in ChildIdx |->
                        IF is_leaf THEN NullNode ELSE SplitLeaf(base + 10 * j)],
        !.child_lbas = [j \in ChildIdx |-> IF is_leaf THEN 0 ELSE base + 10 * j + 1],
        !.disk_lba = base + 1,
        !.dirty = dirty]

\* An internal node with n keys whose child at index is full
SplitParent(n, index, is_leaf, child_dirty, dirty) ==
    [BtreeNode_new(FALSE) EXCEPT
        !.num_keys = n,
        !.keys = [j \in KeyIdx |-> IF j < n THEN 100 * (j + 1) ELSE 0],
        !.values = [j \in KeyIdx |-> IF j < n THEN Val(100 * (j + 1)) ELSE NullPtr],
        !.value_lbas = [j \in KeyIdx |-> IF j < n THEN 600 + 100 * j ELSE 0],
        !.children = [j \in ChildIdx |->
                        IF j = index
                        THEN SplitChildNode(is_leaf, 100 * j, child_dirty)
                        ELSE IF j <= n THEN SplitLeaf(100 * j) ELSE NullNode],
        !.child_lbas = [j \in ChildIdx |-> IF j <= n THEN 100 * j + 1 ELSE 0],
        !.disk_lba = 7,
        !.dirty = dirty]

\* The calls of btree_split_child: parents with 0..BTREE_MAX_KEYS keys, the
\* full child at each index, a leaf or an internal node
SplitInputs ==
    {[parent |-> SplitParent(c[1], c[2], c[3], c[4], c[5]), index |-> c[2]] :
        c \in {d \in (0..BTREE_MAX_KEYS) \X (0..BTREE_MAX_KEYS)
                      \X BOOLEAN \X BOOLEAN \X BOOLEAN : d[2] <= d[1]}}

SplitChild ==
    /\ nops < MaxSplitOps
    /\ nops' = nops + 1
    /\ \E call \in SplitInputs :
          pres' = [call |-> "btree_split_child", ret |-> 0, records |-> {},
                   parent |-> call.parent, index |-> call.index,
                   after |-> btree_split_child(call.parent, call.index)]
    /\ UNCHANGED <<btVars, dbVars, dev, panicked>>

\* Calls of btree_split_child on a full child.
SpecSplit == Init /\ [][SplitChild]_vars

\* The (key, value) pairs in the first n slots of a node
SlotPairs(node, n) ==
    {<<node.keys[j], node.values[j]>> : j \in 0..(n - 1)}

\* C28: btree_split_child(parent, i) on a full child of a parent that is not
\* full leaves the child with its lower BTREE_MAX_KEYS / 2 keys, makes
\* children[i + 1] a sibling with the keys above the median (and, for an
\* internal child, the children above it), puts the median with its value and
\* value block at keys[i] of the parent behind a shift of the parent's later
\* keys and children, keeps the (key, value) pairs of the three nodes and sets
\* dirty on the three; on a full parent it changes nothing.
C28_SplitMovesUpperHalf ==
    pres.call = "btree_split_child" =>
        LET p     == pres.parent
            i     == pres.index
            a     == pres.after
            c     == p.children[i]
            lower == BTREE_MAX_KEYS \div 2
            upper == BTREE_MAX_KEYS - lower - 1
            left  == a.children[i]
            nn    == a.children[i + 1]
        IN  IF p.num_keys >= BTREE_MAX_KEYS THEN a = p
            ELSE
            /\ left.num_keys = lower
            /\ \A j \in 0..(lower - 1) :
                  /\ left.keys[j] = c.keys[j]
                  /\ left.values[j] = c.values[j]
                  /\ left.value_lbas[j] = c.value_lbas[j]
            /\ \A j \in 0..lower : left.children[j] = c.children[j]
            /\ left.is_leaf = c.is_leaf /\ nn.is_leaf = c.is_leaf
            /\ nn.num_keys = upper
            /\ \A j \in 0..(upper - 1) :
                  /\ nn.keys[j] = c.keys[lower + 1 + j]
                  /\ nn.values[j] = c.values[lower + 1 + j]
                  /\ nn.value_lbas[j] = c.value_lbas[lower + 1 + j]
            /\ c.is_leaf \/ \A j \in 0..upper :
                                nn.children[j] = c.children[lower + 1 + j]
            /\ a.num_keys = p.num_keys + 1
            /\ a.keys[i] = c.keys[lower]
            /\ a.values[i] = c.values[lower]
            /\ a.value_lbas[i] = c.value_lbas[lower]
            /\ \A j \in 0..(a.num_keys - 1) :
                  /\ j < i => /\ a.keys[j] = p.keys[j]
                              /\ a.values[j] = p.values[j]
                              /\ a.value_lbas[j] = p.value_lbas[j]
                  /\ j > i => /\ a.keys[j] = p.keys[j - 1]
                              /\ a.values[j] = p.values[j - 1]
                              /\ a.value_lbas[j] = p.value_lbas[j - 1]
            /\ \A j \in 0..a.num_keys :
                  /\ j < i => a.children[j] = p.children[j]
                  /\ j > i + 1 => a.children[j] = p.children[j - 1]
            /\ SlotPairs(a, a.num_keys) \cup SlotPairs(left, left.num_keys)
                  \cup SlotPairs(nn, nn.num_keys)
               = SlotPairs(p, p.num_keys) \cup SlotPairs(c, c.num_keys)
            /\ a.dirty /\ left.dirty /\ nn.dirty

\* A split of a full internal child that was not dirty, under a parent that
\* was not dirty and has keys behind the child
C28_SplitInternalChild ==
    /\ pres.call = "btree_split_child"
    /\ pres.parent.num_keys < BTREE_MAX_KEYS
    /\ pres.index < pres.parent.num_keys
    /\ ~pres.parent.dirty
    /\ ~pres.parent.children[pres.index].is_leaf
    /\ ~pres.parent.children[pres.index].dirty
    /\ pres.after.num_keys = pres.parent.num_keys + 1

\* The fields match_field is called with, some of each type: those that hold
\* bytes, those that hold a number, those that hold a truth value
MatchFields ==
    << {FStr(s) : s \in {"", "a", "ab", "b", "B", "1", "true", "10"}}
          \cup {[t |-> "Blob", s |-> "a"]},
       {FU64(v) : v \in {0, 1, 2, 10, 70000}}
          \cup {FU32(v) : v \in {0, 1, 10}}
          \cup {[t |-> "U8", v |-> 1], [t |-> "I64", v |-> 1]},
       {[t |-> "Bool", v |-> b] : b \in BOOLEAN} >>

\* The values of a WHERE condition: strings and numbers
MatchValues ==
    << {[t |-> "Str", s |-> s] :
          s \in {"", "a", "ab", "b", "1", "true", "TRUE", "True", "0", "10", "x1", "2x"}},
       {[t |-> "U64", v |-> v] : v \in {0, 1, 2, 10, 70000}} >>

MatchField ==
    /\ nops < MaxMatchOps
    /\ nops' = nops + 1
    /\ \E i \in DOMAIN MatchFields, j \in DOMAIN MatchValues :
          \E field \in MatchFields[i], cond_val \in MatchValues[j],
             op \in {"Eq", "Neq", "Lt", "Gt", "Le", "Ge"} :
             pres' = [call |-> "match_field", ret |-> 0, records |-> {},
                      field |-> field, op |-> op, value |-> cond_val,
                      holds |-> match_field(field, op, cond_val)]
    /\ UNCHANGED <<btVars, dbVars, dev, panicked>>

\* Calls of match_field.
SpecMatch == Init /\ [][MatchField]_vars

\* The operator/type matrix: the result for a field, an operator and the
\* value of a condition
MatrixResult(field, op, value) ==
    LET six(equal, less) == Compares(op, equal, less, ~equal /\ ~less)
        two(equal) == (op = "Eq" /\ equal) \/ (op = "Neq" /\ ~equal)
    IN  CASE field.t = "Str" /\ value.t = "Str" ->
                six(field.s = value.s, LexLess(field.s, value.s))
          [] field.t \in {"U64", "U32"} /\ value.t = "U64" ->
                six(field.v = value.v, field.v < value.v)
          [] field.t = "Bool" /\ value.t = "U64" ->
                two(value.v = IF field.v THEN 1 ELSE 0)
          [] field.t = "Bool" /\ value.t = "Str" ->
                two(field.v <=> (value.s = "1" \/ str_eq_ignore_case(value.s, "true")))
          [] field.t = "U64" /\ value.t = "Str" ->
                two(field.v = parse_u64(value.s))
          [] OTHER -> FALSE

\* C29: match_field returns the result of the operator/type matrix for every
\* field type, value type and operator: Str/Str, U64/U64 and U32/U64 with
\* the six operators, Bool/U64, Bool/Str and U64/Str with = and != only and
\* false for the four others, and false for every other pairing.
C29_MatchFieldFollowsMatrix ==
    pres.call = "match_field" =>
        pres.holds = MatrixResult(pres.field, pres.op, pres.value)

\* A Bool field that differs from the value and is asked for <: the field
\* is not the value, and the result is false.
C29_BoolBelowIsFalse ==
    /\ pres.call = "match_field"
    /\ pres.field.t = "Bool" /\ ~pres.field.v
    /\ pres.value.t = "U64" /\ pres.value.v = 1
    /\ pres.op = "Lt"
    /\ ~pres.holds

\* ------------------------------------------------------------------------
\* storage/page_io.rs: page_read_record
\* ------------------------------------------------------------------------

\* One pass of page_read_record over the chain from cur, nr reads made so
\* far: the pages read, in order.  The first pass tests the magic of each
\* page.  A chain that leads back into itself is walked for ever (hang):
\* the walk has then read more pages than the device has blocks.
RECURSIVE read_chain(_, _, _, _, _, _)
read_chain(dv, cur, io, nr, first_pass, pages) ==
    IF cur = 0
    THEN [ret |-> VOS_OK, pages |-> pages, nr |-> nr, hang |-> FALSE]
    ELSE IF io.rfail = nr + 1
    THEN [ret |-> VOS_ERR_IO, pages |-> pages, nr |-> nr, hang |-> FALSE]
    ELSE IF Len(pages) > NumBlocks
    THEN [ret |-> VOS_OK, pages |-> pages, nr |-> nr, hang |-> TRUE]
    ELSE LET pg == disk_read_block(dv, cur, TRUE)
         IN  IF first_pass /\ pg.magic # PAGE_RECORD_MAGIC
             THEN [ret |-> VOS_ERR_INVAL, pages |-> pages, nr |-> nr,
                   hang |-> FALSE]
             ELSE read_chain(dv, pg.next_block, io, nr + 1, first_pass,
                             Append(pages, pg))

\* The sum of payload_len over pages
RECURSIVE total_payload_len(_)
total_payload_len(pages) ==
    IF pages = <<>> THEN 0
    ELSE pages[1].payload_len + total_payload_len(Tail(pages))

\* payload_buf after the second pass: the runs of bytes the pages hold, each
\* run the len bytes of the payload of a record from an offset on
payload_runs(pages) ==
    [i \in 1..Len(pages) |->
        [of |-> pages[i].payload.of, from |-> pages[i].payload.from,
         len |-> pages[i].payload_len]]

\* payload_buf[lo..hi]: the runs that make up these bytes; runs that follow
\* each other in the payload of one record are one run
RECURSIVE slice_runs(_, _, _, _)
slice_runs(runs, pos, lo, hi) ==
    IF runs = <<>> THEN <<>>
    ELSE LET r    == runs[1]
             a    == IF lo > pos THEN lo ELSE pos
             b    == IF hi < pos + r.len THEN hi ELSE pos + r.len
             rest == slice_runs(Tail(runs), pos + r.len, lo, hi)
             here == [of |-> r.of, from |-> r.from + (a - pos), len |-> b - a]
         IN  IF b <= a THEN rest
             ELSE IF rest # <<>> /\ rest[1].of = here.of
                     /\ rest[1].from = here.from + here.len
             THEN <<[here EXCEPT !.len = here.len + rest[1].len]>> \o Tail(rest)
             ELSE <<here>> \o rest

\* The header fields and the ciphertext page_read_record takes from
\* payload_buf: those of the record whose payload the buffer starts with
parse_payload(runs, total_len, enc) ==
    LET hdr == slice_runs(runs, 0, 0, RECORD_PAYLOAD_HDR)
    IN  IF Len(hdr) = 1 /\ hdr[1].from = 0
        THEN LET e   == hdr[1].of
                 got == [enc EXCEPT !.row_id = e.row_id,
                                    !.table_id = e.table_id,
                                    !.ciphertext_len = e.ciphertext_len,
                                    !.iv = e.iv, !.mac = e.mac]
             IN  IF RECORD_PAYLOAD_HDR + e.ciphertext_len > total_len
                 THEN {[ret |-> VOS_ERR_INVAL, enc |-> got]}
                 ELSE {[ret |-> VOS_OK,
                        enc |-> [got EXCEPT !.ciphertext =
                                   slice_runs(runs, 0, RECORD_PAYLOAD_HDR,
                                       RECORD_PAYLOAD_HDR + e.ciphertext_len)]]}
        ELSE \* bytes that are not the header of a record: fields unknown
             {[ret |-> code, enc |-> [enc EXCEPT !.row_id = 0, !.table_id = 0,
                                        !.ciphertext_len = 0, !.iv = 0, !.mac = 0]] :
                 code \in {VOS_OK, VOS_ERR_INVAL}}

\* EncryptedRecord as the caller hands it to page_read_record
EncryptedRecord_new ==
    [row_id |-> 0, table_id |-> 0, ciphertext_len |-> 0, iv |-> 0, mac |-> 0,
     ciphertext |-> <<>>]

\* page_read_record(block, enc): the results it can return, each the code,
\* the caller's record afterwards and how the call ends: it returns, walks
\* a chain for ever (hang) or panics.  The second pass copies
\* pg.payload[..payload_len] of each page it read: the slice leaves the
\* payload array, and the kernel panics, when payload_len is larger than
\* RECORD_PAGE_PAYLOAD.
page_read_record(dv, block, enc, io) ==
    LET p1 == read_chain(dv, block, io, 0, TRUE, <<>>)
        p2 == read_chain(dv, block, io, p1.nr, FALSE, <<>>)
        total_len == total_payload_len(p1.pages)
        answer(code) == {[ret |-> code, enc |-> enc, end |-> "return"]}
    IN  IF p1.hang THEN {[ret |-> 0, enc |-> enc, end |-> "hang"]}
        ELSE IF p1.ret # VOS_OK THEN answer(p1.ret)
        ELSE IF total_len < RECORD_PAYLOAD_HDR THEN answer(VOS_ERR_INVAL)
        ELSE IF \E i \in 1..Len(p2.pages) :
                    p2.pages[i].payload_len > RECORD_PAGE_PAYLOAD
        THEN {[ret |-> 0, enc |-> enc, end |-> "panic"]}
        ELSE IF p2.ret # VOS_OK THEN answer(p2.ret)
        ELSE {[ret |-> r.ret, enc |-> r.enc, end |-> "return"] :
                 r \in parse_payload(payload_runs(p2.pages), total_len, enc)}

\* page_read_record on the first block of a record written before
PageReadRecord ==
    /\ ~dev.double_free
    /\ nops < MaxPageOps
    /\ nops' = nops + 1
    /\ \E block \in pres.records, io \in IoOutcomes :
          \E r \in page_read_record(dev, block, EncryptedRecord_new, io) :
              pres' = [call |-> "page_read_record", ret |-> r.ret,
                       records |-> pres.records, encs |-> pres.encs,
                       block |-> block, io |-> io, enc |-> r.enc]
    /\ UNCHANGED <<btVars, dbVars, dev, panicked>>

RecordNext == PageWriteRecord \/ PageFreeRecordBlocks \/ PageReadRecord

\* Any sequence of record writes, reads and frees on a formatted device.
SpecRecord == Init /\ [][RecordNext]_vars

\* The blocks of the chain that starts at block cur, in order, for at most n
\* steps
RECURSIVE ChainBlocks(_, _, _)
ChainBlocks(dv, cur, n) ==
    IF cur = 0 \/ n = 0 THEN <<>>
    ELSE <<cur>> \o ChainBlocks(dv, dv.blocks[cur].next_block, n - 1)

\* C30: a successful page_write_record(enc) leaves a chain of exactly
\* ceil((RECORD_PAYLOAD_HDR + ciphertext_len) / RECORD_PAGE_PAYLOAD) distinct
\* blocks from the block it returns, each a page with the magic "RECD" and a
\* payload_len of at most RECORD_PAGE_PAYLOAD, the last with next_block = 0;
\* and page_read_record on that block, when the device answers its reads,
\* returns VOS_OK with the row_id, table_id, ciphertext_len, iv, mac and
\* ciphertext of enc.
C30_RecordChainReadsBack ==
    /\ (pres.call = "page_write_record" /\ pres.ret # 0) =>
          LET chain == ChainBlocks(dev, pres.ret, NumBlocks + 1)
              total == RECORD_PAYLOAD_HDR + pres.enc.ciphertext_len
          IN  /\ Len(chain) * RECORD_PAGE_PAYLOAD >= total
              /\ (Len(chain) - 1) * RECORD_PAGE_PAYLOAD < total
              /\ Cardinality({chain[i] : i \in 1..Len(chain)}) = Len(chain)
              /\ \A i \in 1..Len(chain) :
                    /\ dev.blocks[chain[i]].magic = PAGE_RECORD_MAGIC
                    /\ dev.blocks[chain[i]].payload_len <= RECORD_PAGE_PAYLOAD
              /\ dev.blocks[chain[Len(chain)]].next_block = 0
    /\ (pres.call = "page_read_record" /\ pres.ret # VOS_ERR_IO) =>
          LET enc == pres.encs[pres.block]
          IN  /\ pres.ret = VOS_OK
              /\ pres.enc.row_id = enc.row_id
              /\ pres.enc.table_id = enc.table_id
              /\ pres.enc.ciphertext_len = enc.ciphertext_len
              /\ pres.enc.iv = enc.iv
              /\ pres.enc.mac = enc.mac
              /\ pres.enc.ciphertext =
                    <<[of |-> enc, from |-> RECORD_PAYLOAD_HDR,
                       len |-> enc.ciphertext_len]>>

\* A record of MaxPages pages read back behind a write of another record
C30_LongRecordReadBack ==
    /\ pres.call = "page_read_record"
    /\ pres.ret = VOS_OK
    /\ Len(ChainBlocks(dev, pres.block, NumBlocks + 1)) = MaxPages
    /\ Cardinality(pres.records) = 2

\* ------------------------------------------------------------------------
\* The lexer, token by token
\* ------------------------------------------------------------------------

\* The inputs handed to the lexer: the statements of the other
\* specifications and statements with a string literal of more than
\* MAX_STR_LEN bytes
LexInputs ==
    QueryInputs \cup GrantInputs \cup
    { "SELECT * FROM SystemTable WHERE key = '" \o Long64 \o "x'",
      "INSERT INTO SystemTable (key, value) VALUES ('k', '" \o Long64 \o "', 'w')",
      "SELECT * FROM SystemTable WHERE key = 'open",
      "SELECT * FROM SystemTable WHERE key = ''" }

\* Parser::new(input): the parser at its first token
ParserNew ==
    /\ pres.call = "none"
    /\ \E input \in LexInputs :
          pres' = [call |-> "Parser_new", ret |-> 0, records |-> {},
                   start |-> RunEnd(input, 0, "space", Len(input)),
                   p |-> Parser_new(input)]
    /\ UNCHANGED <<btVars, dbVars, dev, panicked, nops>>

\* Parser::next_token behind a token that is not Eof
NextToken ==
    /\ pres.call \in {"Parser_new", "next_token"}
    /\ pres.p.current.ttype # "Eof"
    /\ pres' = [call |-> "next_token", ret |-> 0, records |-> {},
                start |-> RunEnd(pres.p.input, pres.p.pos, "space", Len(pres.p.input)),
                p |-> next_token(pres.p)]
    /\ UNCHANGED <<btVars, dbVars, dev, panicked, nops>>

LexNext == ParserNew \/ NextToken

\* The lexer run over an input, one token at a time.
SpecLex == Init /\ [][LexNext]_vars

\* The 0-based position of the first quote of input at or behind pos, the
\* length of input if there is none
QuoteFrom(input, pos) ==
    SetMin({j \in pos..(Len(input) - 1) : At(input, j) = "'"} \cup {Len(input)})

\* C31: a single-quoted string literal of any length produces one STRING
\* token with its first min(length, MAX_STR_LEN) bytes, and the lexer goes
\* on behind the closing quote of the literal.
C31_LiteralIsOneToken ==
    (pres.call \in {"Parser_new", "next_token"}
       /\ pres.start < Len(pres.p.input)
       /\ At(pres.p.input, pres.start) = "'") =>
        LET input  == pres.p.input
            close  == QuoteFrom(input, pres.start + 1)
            length == close - (pres.start + 1)
        IN  /\ pres.p.current.ttype = "StringLit"
            /\ pres.p.current.value =
                  SubSeq(input, pres.start + 2,
                         pres.start + 1 + Min2(length, MAX_STR_LEN))
            /\ pres.p.pos = Min2(close + 1, Len(input))

\* ------------------------------------------------------------------------
\* The friendly command translator (shell/friendly.rs)
\* ------------------------------------------------------------------------

SQL_MAX == 512

ALIASES ==
    << <<"procs", "ProcessTable">>, <<"caps", "CapabilityTable">>,
       <<"objects", "ObjectTable">>, <<"msgs", "MessageTable">>,
       <<"audit", "AuditTable">>, <<"config", "SystemTable">>,
       <<"sys", "SystemTable">> >>

eq_ci(a, b) ==
    /\ Len(a) = Len(b)
    /\ \A i \in 1..Len(a) : ToLower(Ch(a, i)) = ToLower(Ch(b, i))

resolve_alias(name) ==
    LET hits == {i \in 1..Len(ALIASES) : eq_ci(name, ALIASES[i][1])}
    IN  IF hits = {} THEN name ELSE ALIASES[SetMin(hits)][2]

\* str::trim on a line of ASCII bytes
trim(s) ==
    LET first == RunEnd(s, 0, "space", Len(s))
        kept  == {j \in 1..Len(s) : ~is_space(Ch(s, j))}
    IN  IF kept = {} THEN "" ELSE SubSeq(s, first + 1, CHOOSE j \in kept : \A k \in kept : k <= j)

\* tokenize from byte i: the tokens as [tok, start, end], 32 at most.  A
\* token that starts with a single quote runs to the closing quote; the
\* lines submitted here hold no double quote.
RECURSIVE tokenize_from(_, _, _)
tokenize_from(input, i, tokens) ==
    LET len   == Len(input)
        start == RunEnd(input, i, "blank", len)
        close == RunEnd(input, start + 1, "notquote", len)
        end   == IF At(input, start) = "'"
                 THEN (IF close < len THEN close + 1 ELSE close)
                 ELSE RunEnd(input, start, "notblank", len)
    IN  IF i >= len \/ Len(tokens) >= 32 \/ start >= len THEN tokens
        ELSE tokenize_from(input, end,
                           Append(tokens, [tok |-> SubSeq(input, start + 1, end),
                                           start |-> start, end |-> end]))

tokenize(input) == tokenize_from(input, 0, <<>>)

\* write_to(sql, pos, data): sql is the buffer up to pos
write_to(sql, data) == Truncate(sql \o data, SQL_MAX - 1)

write_sql(data) == [some |-> TRUE, sql |-> write_to("", data)]

\* write_escaped: every single quote of input doubled
RECURSIVE write_escaped(_, _)
write_escaped(sql, input) ==
    IF input = "" \/ Len(sql) >= SQL_MAX - 1 THEN sql
    ELSE write_escaped(IF Ch(input, 1) = "'" THEN write_to(sql, "''")
                       ELSE sql \o Ch(input, 1),
                       SubSeq(input, 2, Len(input)))

is_numeric(s) ==
    LET start == IF Ch(s, 1) = "-" THEN 1 ELSE 0
    IN  /\ s # ""
        /\ start < Len(s)
        /\ \A j \in (start + 1)..Len(s) : is_digit(Ch(s, j))

append_value(sql, val) ==
    IF is_numeric(val) \/ eq_ci(val, "true") \/ eq_ci(val, "false")
    THEN write_to(sql, val)
    ELSE write_to(write_escaped(write_to(sql, "'"), val), "'")

\* tok.find('='): the 0-based position of the first `=`, -1 for None
find_eq(tok) ==
    LET hits == {j \in 0..(Len(tok) - 1) : At(tok, j) = "="}
    IN  IF hits = {} THEN -1 ELSE SetMin(hits)

\* col = val of the token tok, behind sep unless it is the first one
append_pair(sql, tok, sep, first) ==
    LET eq_pos == find_eq(tok)
        col    == SubSeq(tok, 1, eq_pos)
        val    == SubSeq(tok, eq_pos + 2, Len(tok))
    IN  append_value(write_to(write_to(IF first THEN sql ELSE write_to(sql, sep), col),
                                       " = "), val)

\* the loop of build_where from token i
RECURSIVE build_where_loop(_, _, _, _, _)
build_where_loop(tokens, i, count, sql, first) ==
    IF i >= count THEN sql
    ELSE LET tok == tokens[i + 1].tok
         IN  IF eq_ci(tok, "where") \/ find_eq(tok) = -1
             THEN build_where_loop(tokens, i + 1, count, sql, first)
             ELSE build_where_loop(tokens, i + 1, count,
                                   append_pair(sql, tok, " AND ", first), FALSE)

build_where(tokens, start, count, sql) == build_where_loop(tokens, start, count, sql, TRUE)

\* the tokens i..count-1 of the form col=val, 16 at most
RECURSIVE insert_pairs(_, _, _, _)
insert_pairs(tokens, i, count, pairs) ==
    IF i >= count THEN pairs
    ELSE LET tok    == tokens[i + 1].tok
             eq_pos == find_eq(tok)
         IN  IF eq_pos = -1 THEN insert_pairs(tokens, i + 1, count, pairs)
             ELSE IF Len(pairs) >= 16 THEN pairs
             ELSE insert_pairs(tokens, i + 1, count,
                               Append(pairs, [col |-> SubSeq(tok, 1, eq_pos),
                                              val |-> SubSeq(tok, eq_pos + 2, Len(tok))]))

RECURSIVE write_cols(_, _, _)
write_cols(sql, pairs, i) ==
    IF i > Len(pairs) THEN sql
    ELSE write_cols(write_to(IF i > 1 THEN write_to(sql, ", ") ELSE sql, pairs[i].col),
                    pairs, i + 1)

RECURSIVE write_vals(_, _, _)
write_vals(sql, pairs, i) ==
    IF i > Len(pairs) THEN sql
    ELSE write_vals(append_value(IF i > 1 THEN write_to(sql, ", ") ELSE sql, pairs[i].val),
                    pairs, i + 1)

build_insert(tokens, start, count, table) ==
    LET pairs == insert_pairs(tokens, start, count, <<>>)
        head  == write_to(write_to(write_to("", "INSERT INTO "), table), " (")
        cols  == write_to(write_cols(head, pairs, 1), ") VALUES (")
    IN  IF Len(pairs) = 0 THEN [some |-> FALSE, sql |-> ""]
        ELSE [some |-> TRUE, sql |-> write_to(write_vals(cols, pairs, 1), ")")]

\* the SET loop of build_update over the tokens i..where_idx-1
RECURSIVE update_set_loop(_, _, _, _, _)
update_set_loop(tokens, i, where_idx, sql, first) ==
    IF i >= where_idx THEN sql
    ELSE LET tok == tokens[i + 1].tok
         IN  IF find_eq(tok) = -1
             THEN update_set_loop(tokens, i + 1, where_idx, sql, first)
             ELSE update_set_loop(tokens, i + 1, where_idx,
                                  append_pair(sql, tok, ", ", first), FALSE)

build_update(tokens, start, count, table) ==
    LET wheres    == {i \in start..(count - 1) : eq_ci(tokens[i + 1].tok, "where")}
        where_idx == IF wheres = {} THEN count ELSE SetMin(wheres)
        head      == write_to(write_to(write_to("", "UPDATE "), table), " SET ")
        set       == update_set_loop(tokens, start, where_idx, head, TRUE)
    IN  [some |-> TRUE,
         sql  |-> IF where_idx < count
                  THEN build_where(tokens, where_idx + 1, count, write_to(set, " WHERE "))
                  ELSE set]

\* the `create <type> <name> [content]` branch of translate
build_create(trimmed, tokens, count) ==
    LET obj_type == tokens[2].tok
        name     == tokens[3].tok
        head     == write_to(write_to("", "INSERT INTO ObjectTable (name, type"),
                             IF count > 3 THEN ", data) VALUES ('" ELSE ") VALUES ('")
        typed    == write_to(write_escaped(write_to(write_escaped(head, name), "', '"),
                                           obj_type), "'")
        content  == SubSeq(trimmed, tokens[4].start + 1, Len(trimmed))
        body     == IF count > 3
                    THEN write_to(write_escaped(write_to(typed, ", '"), content), "'")
                    ELSE typed
    IN  [some |-> TRUE, sql |-> write_to(body, ")")]

\* name = '<name>' appended to a statement on ObjectTable
by_name(head, name) ==
    [some |-> TRUE, sql |-> write_to(write_escaped(write_to("", head), name), "'")]

\* translate(input, sql): [some, sql], some = FALSE for None.  The lines
\* hold no NUL byte, so to_str keeps them whole.
translate(input) ==
    LET trimmed == trim(input)
        tokens  == tokenize(trimmed)
        count   == Len(tokens)
        verb    == tokens[1].tok
        table   == resolve_alias(tokens[2].tok)
        none    == [some |-> FALSE, sql |-> ""]
        from(head) == write_to(write_to("", head), table)
    IN
    IF trimmed = "" THEN none
    ELSE IF count = 0 THEN none
    ELSE IF eq_ci(verb, "tables") THEN write_sql("SHOW TABLES")
    ELSE IF eq_ci(verb, "show") \/ eq_ci(verb, "list")
    THEN (IF count >= 2 THEN [some |-> TRUE, sql |-> from("SELECT * FROM ")]
          ELSE IF eq_ci(verb, "list") THEN write_sql("SELECT * FROM ObjectTable")
          ELSE none)
    ELSE IF eq_ci(verb, "info") /\ count >= 2
    THEN [some |-> TRUE, sql |-> from("DESCRIBE ")]
    ELSE IF eq_ci(verb, "count") /\ count >= 2
    THEN [some |-> TRUE, sql |-> from("SELECT * FROM ")]
    ELSE IF eq_ci(verb, "find") /\ count >= 2
    THEN [some |-> TRUE,
          sql  |-> IF count > 2
                   THEN build_where(tokens, 2, count,
                                    write_to(from("SELECT * FROM "), " WHERE "))
                   ELSE from("SELECT * FROM ")]
    ELSE IF eq_ci(verb, "add") /\ count >= 3
    THEN build_insert(tokens, 2, count, table)
    ELSE IF eq_ci(verb, "del") \/ eq_ci(verb, "rm")
    THEN (IF count >= 3
          THEN [some |-> TRUE,
                sql  |-> build_where(tokens, 2, count,
                                     write_to(from("DELETE FROM "), " WHERE "))]
          ELSE IF eq_ci(verb, "rm") /\ count >= 2
          THEN by_name("DELETE FROM ObjectTable WHERE name = '", tokens[2].tok)
          ELSE none)
    ELSE IF eq_ci(verb, "set") /\ count >= 4
    THEN build_update(tokens, 2, count, table)
    ELSE IF eq_ci(verb, "create") /\ count >= 3
    THEN build_create(trimmed, tokens, count)
    ELSE IF eq_ci(verb, "open") \/ eq_ci(verb, "cat")
    THEN (IF count >= 2
          THEN by_name("SELECT * FROM ObjectTable WHERE name = '", tokens[2].tok)
          ELSE none)
    ELSE IF eq_ci(verb, "ps") THEN write_sql("SELECT * FROM ProcessTable")
    ELSE none

\* the conditions exec_select and exec_delete parse out of the statement sql:
\* parse_where behind `SELECT * FROM T` or `DELETE FROM T`
statement_conds(sql) ==
    LET p  == Parser_new(sql)
        p1 == next_token(p)
    IN  CASE p.current.ttype = "Select" ->
                 parse_where(next_token(next_token(next_token(p1)))).conds
          [] p.current.ttype = "Delete" ->
                 parse_where(next_token(next_token(p1))).conds
          [] OTHER -> <<>>

\* the col=val lists and the names typed behind a friendly verb
FriendlyConds ==
    { "", " key=abc", " id=5", " id=-5", " flag=true", " flag=FALSE", " name=o'k",
      " id=5 key=abc", " where id=5", " key=abc id=-5" }
FriendlyNames == { "", " notes", " o'k", " 'my notes'" }

\* SQL typed directly, in the letter cases users type
SqlLines ==
    QueryInputs \cup GrantInputs \cup
    { "show tables", "Show Tables", "describe AuditTable", "select * from SystemTable",
      "delete from SystemTable where id = 2",
      "update SystemTable set value = 'w' where id = 1",
      "insert into SystemTable (key, value) values ('k', 'v')",
      "grant read on 3 to 4", "revoke 7" }

\* the lines the shell hands to translate
FriendlyInputs ==
    { v \o " " \o t \o c : v \in {"find", "del", "DEL"},
                           t \in {"config", "SystemTable", "objects"},
                           c \in FriendlyConds }
    \cup { v \o n : v \in {"rm", "open", "cat"}, n \in FriendlyNames }
    \cup { "tables", "show procs", "show", "list", "list caps", "info caps", "info",
           "count msgs", "add config key=k value=v", "add config novalue",
           "set config value=w where key=k", "set config value=w x=1",
           "create note todo buy milk", "create note it's", "ps", "", "   ", "frob" }
    \cup SqlLines

\* the shell translates a line
Translate ==
    /\ pres.call = "none"
    /\ \E line \in FriendlyInputs :
          pres' = [call |-> "translate", ret |-> 0, records |-> {},
                   line |-> line, out |-> translate(line), conds |-> <<>>]
    /\ UNCHANGED <<btVars, dbVars, dev, panicked, nops>>

\* the executor parses the WHERE clause of the translated statement
ParseTranslated ==
    /\ pres.call = "translate"
    /\ pres.out.some
    /\ pres' = [pres EXCEPT !.call = "parse_where",
                            !.conds = statement_conds(pres.out.sql)]
    /\ UNCHANGED <<btVars, dbVars, dev, panicked, nops>>

FriendlyNext == Translate \/ ParseTranslated

\* The shell translating one line and the executor parsing the result.
SpecFriendly == Init /\ [][FriendlyNext]_vars

\* the col=val pairs of a find / del line, and name=<name> of rm / open / cat
PairsOf(line) ==
    LET tokens == tokenize(trim(line))
        verb   == tokens[1].tok
        given  == insert_pairs(tokens, 2, Len(tokens), <<>>)
    IN  IF Len(tokens) < 2 THEN <<>>
        ELSE IF eq_ci(verb, "find") \/ eq_ci(verb, "del") THEN given
        ELSE IF eq_ci(verb, "rm") /\ Len(tokens) >= 3 THEN given
        ELSE IF eq_ci(verb, "rm") \/ eq_ci(verb, "open") \/ eq_ci(verb, "cat")
        THEN <<[col |-> "name", val |-> tokens[2].tok]>>
        ELSE <<>>

\* the text of a parsed WHERE value
ValueText(value) ==
    IF value.t = "Str" THEN value.s ELSE write_u64_to_buf(value.v)

IsFilterLine(line) ==
    LET tokens == tokenize(trim(line))
    IN  /\ Len(tokens) >= 2
        /\ \E v \in {"find", "del", "rm", "open", "cat"} : eq_ci(tokens[1].tok, v)

\* C32: for every find / del / rm / open line the executor parses the
\* translated statement into exactly one WHERE condition per col=val pair
\* of the line, in order, each with the pair's column, the operator = and a
\* value whose text is the pair's val.
C32_OneConditionPerPair ==
    (pres.call = "parse_where" /\ IsFilterLine(pres.line)) =>
        LET pairs == PairsOf(pres.line)
        IN  /\ Len(pres.conds) = Len(pairs)
            /\ \A i \in 1..Len(pairs) :
                  /\ pres.conds[i].column = pairs[i].col
                  /\ pres.conds[i].op = "Eq"
                  /\ ValueText(pres.conds[i].value) = pairs[i].val

\* C33: translate answers None for every line that is a statement of the
\* SQL grammar.
C33_SqlIsNotTranslated ==
    (pres.call \in {"translate", "parse_where"} /\ pres.line \in SqlLines
     /\ InGrammar(pres.line)) => ~pres.out.some

\* ------------------------------------------------------------------------
\* Rows with fresh ids on one table
\* ------------------------------------------------------------------------

\* db_insert_record of a record whose row id db_next_row_id hands out
CntInsertRecord ==
    /\ Running
    /\ db.TABLE_COUNT > 0
    /\ nops < MaxCountOps
    /\ nops' = nops + 1
    /\ \E id \in {db_next_row_id(db.GLOBAL_ROW_ID)}, iv \in IVs :
          \E r \in {db_insert_record([db EXCEPT !.GLOBAL_ROW_ID = id.next,
                                                !.issued = Append(@, id.id)],
                                     TABLE_ID_SYSTEM,
                                     ApiRecord(TABLE_ID_SYSTEM, id.id, FALSE), iv)} :
              /\ Commit(r.db)
              /\ result' = [call |-> "db_insert_record", error_code |-> r.ret,
                            table_id |-> TABLE_ID_SYSTEM, row_id |-> id.id]
    /\ UNCHANGED <<btVars, pgVars>>

CntDeleteRecord ==
    /\ Running
    /\ db.TABLE_COUNT > 0
    /\ nops < MaxCountOps
    /\ nops' = nops + 1
    /\ \E row_id \in 1..db.GLOBAL_ROW_ID :
          \E r \in {db_delete_record(db, TABLE_ID_SYSTEM, row_id)} :
              /\ Commit(r.db)
              /\ result' = [call |-> "db_delete_record", error_code |-> r.ret,
                            table_id |-> TABLE_ID_SYSTEM, row_id |-> row_id]
    /\ UNCHANGED <<btVars, pgVars>>

CntUpdateEncrypted ==
    /\ Running
    /\ db.TABLE_COUNT > 0
    /\ nops < MaxCountOps
    /\ nops' = nops + 1
    /\ \E row_id \in 1..db.GLOBAL_ROW_ID, iv \in IVs :
          \E r \in {db_update_encrypted(db, TABLE_ID_SYSTEM, row_id,
                                        ApiRecord(TABLE_ID_SYSTEM, row_id, FALSE), iv)} :
              /\ Commit(r.db)
              /\ result' = [call |-> "db_update_encrypted", error_code |-> r.ret,
                            table_id |-> TABLE_ID_SYSTEM, row_id |-> row_id]
    /\ UNCHANGED <<btVars, pgVars>>

CountNext == ColdBoot \/ CntInsertRecord \/ CntDeleteRecord \/ CntUpdateEncrypted

\* A cold boot, then inserts with fresh row ids, deletes and updates.
SpecCount == Init /\ [][CountNext]_vars

\* C34: unless an insert has panicked, no call has made a count underflow,
\* and the count of every table's tree is the number of rows a scan of the
\* tree visits.
C34_CountIsScannedRows ==
    ~db.panic =>
        /\ ~panicked
        /\ \A t \in 0..(db.TABLE_COUNT - 1) :
              db.INDEXES[t].count = Len(btree_scan(db.INDEXES[t]))

\* an update and a delete have run on a tree whose root is an internal node
\* that holds a deleted key
C34_CountedAfterTombstone ==
    /\ ~panicked
    /\ db.TABLE_COUNT > 0
    /\ result.call = "db_update_encrypted"
    /\ result.error_code = VOS_OK
    /\ LET root == db.INDEXES[TABLE_ID_SYSTEM].root
       IN  /\ ~root.is_leaf
           /\ \E i \in 0..(root.num_keys - 1) : root.values[i] = NullPtr
    /\ db.INDEXES[TABLE_ID_SYSTEM].count = 4

\* ------------------------------------------------------------------------
\* Inserts into a tree that has been flushed
\* ------------------------------------------------------------------------

\* The tree after a flush: children before parents, every record whose
\* block is 0 written and its block number recorded in value_lbas, every
\* dirty node written, its block recorded in disk_lba and in the parent's
\* child_lbas, and its dirty flag cleared.  Only the block numbers' being
\* nonzero is used: the record of key k is written as block 16 + k, a node
\* as block 32 + its first key.
RECURSIVE flush_node(_)
flush_node(node) ==
    IF node = NullNode THEN node
    ELSE
    LET kids == [c \in DOMAIN node.children |->
                    IF ~node.is_leaf /\ c <= node.num_keys
                    THEN flush_node(node.children[c]) ELSE node.children[c]]
        lbas == [i \in DOMAIN node.value_lbas |->
                    IF i < node.num_keys /\ node.values[i] # NullPtr
                       /\ node.value_lbas[i] = 0
                    THEN 16 + node.keys[i] ELSE node.value_lbas[i]]
        wrote == node.dirty \/ lbas # node.value_lbas \/ kids # node.children
    IN  [node EXCEPT
            !.children   = kids,
            !.value_lbas = lbas,
            !.child_lbas = [c \in DOMAIN node.child_lbas |->
                               IF ~node.is_leaf /\ c <= node.num_keys
                               THEN kids[c].disk_lba ELSE node.child_lbas[c]],
            !.disk_lba   = IF wrote THEN 32 + node.keys[0] ELSE node.disk_lba,
            !.dirty      = FALSE]

\* db_flush on the tree
FlushTree ==
    /\ ~panicked
    /\ nops < MaxFlushOps
    /\ nops' = nops + 1
    /\ tree' = [tree EXCEPT !.root = flush_node(tree.root)]
    /\ pres' = [call |-> "db_flush", ret |-> 0, records |-> {}, key |-> 0]
    /\ UNCHANGED <<ret, hist, panicked, dbVars, dev>>

\* btree_insert(tree, k, v)
InsertFlushed ==
    /\ ~panicked
    /\ nops < MaxFlushOps
    /\ nops' = nops + 1
    /\ \E k \in Keys, v \in Values :
          /\ BtInsertCall(k, v)
          /\ pres' = [call |-> "btree_insert", ret |-> 0, records |-> {}, key |-> k]
    /\ UNCHANGED <<dbVars, dev>>

FlushNext == InsertFlushed \/ FlushTree

\* Inserts into one tree with flushes in between.
SpecFlush == Init /\ [][FlushNext]_vars

\* the slot btree_search finds key in: [found, lba, dirty]
RECURSIVE SlotOf(_, _)
SlotOf(node, key) ==
    IF node = NullNode THEN [found |-> FALSE, lba |-> 0, dirty |-> FALSE]
    ELSE LET i == ScanUp(node, key)
         IN  IF i < node.num_keys /\ key = node.keys[i]
             THEN [found |-> TRUE, lba |-> node.value_lbas[i], dirty |-> node.dirty]
             ELSE IF node.is_leaf THEN [found |-> FALSE, lba |-> 0, dirty |-> FALSE]
             ELSE SlotOf(node.children[i], key)

\* C35: right after a btree_insert(k, v) that returned, the slot of k holds
\* block number 0 and its node is dirty.
C35_InsertClearsBlockNumber ==
    (pres.call = "btree_insert" /\ ~panicked) =>
        LET slot == SlotOf(tree.root, pres.key)
        IN  slot.found /\ slot.lba = 0 /\ slot.dirty

\* C36: the AES and MAC key contexts of every registered table are the ones
\* derived from the current master key and the table's id.
C36_TableKeysFromMasterKey ==
    \A t \in 0..(db.TABLE_COUNT - 1) :
        /\ db.TABLE_AES_KEYS[t] = aes_init(hmac_sha256(db.MASTER_DB_KEY, <<"AES", t>>))
        /\ db.TABLE_MAC_CTXS[t] = hmac_ctx_init(hmac_sha256(db.MASTER_DB_KEY, <<"MAC", t>>))

\* C37: in every table whose first column is the primary key, the first
\* field of every stored record is the record's row id.
C37_PrimaryKeyIsRowId ==
    \A t \in 0..(db.TABLE_COUNT - 1) :
        db.SCHEMAS[t].columns[0].primary_key =>
            \A rec \in StoredRecords(t) : rec.fields[0] = FU64(rec.row_id)

\* ------------------------------------------------------------------------
\* storage/page_io.rs: pages read from a disk of any content
\* ------------------------------------------------------------------------

\* The record whose payload the pages of such a disk carry
ChainRecord == CHOOSE enc \in PageRecords : enc.ciphertext_len = 16

\* The block contents: a zeroed block, or a record page with a payload
\* length that is the header alone, the header and the ciphertext, or one
\* byte more than a page holds, followed by any block or by none
ChainPages ==
    {ZeroPage} \cup
    {[magic |-> PAGE_RECORD_MAGIC, payload_len |-> n, next_block |-> nb,
      payload |-> [of |-> ChainRecord, from |-> 0]] :
        n \in {RECORD_PAYLOAD_HDR, RECORD_PAYLOAD_HDR + 16,
               RECORD_PAGE_PAYLOAD + 1},
        nb \in 0..NumBlocks}

\* The blocks that hold such contents
LoadedBlocks == {b \in Blocks : b <= MaxLoadedBlocks}

\* The node pages of such a disk: an empty leaf page but for num_keys, with
\* the magic and the checksum of its bytes
ChainNodePage(num_keys) ==
    LET pg == [magic |-> PAGE_NODE_MAGIC, num_keys |-> num_keys,
               is_leaf |-> 1, table_id |-> TABLE_ID_SYSTEM, checksum |-> 0,
               keys |-> [i \in KeyIdx |-> 0],
               value_lbas |-> [i \in KeyIdx |-> 0],
               child_lbas |-> [i \in ChildIdx |-> 0]]
    IN  [bytes |-> NodePage([pg EXCEPT
                     !.checksum = compute_node_checksum(NodePage(pg))])]

\* The device is found holding record pages the kernel did not write, every
\* block allocated.
LoadRecordPages ==
    /\ pres.call = "none"
    /\ nops' = nops + 1
    /\ \E content \in [LoadedBlocks -> ChainPages] :
          dev' = [bitmap |-> [b \in Blocks |-> TRUE], hint |-> 1,
                  blocks |-> [b \in Blocks |->
                                IF b \in LoadedBlocks THEN content[b]
                                ELSE ZeroPage],
                  double_free |-> FALSE]
    /\ pres' = [call |-> "load_record_pages", ret |-> "none", end |-> "return"]
    /\ UNCHANGED <<btVars, dbVars, panicked>>

\* The device is found holding a node page the kernel did not write in its
\* first block.
LoadNodePage ==
    /\ pres.call = "none"
    /\ nops' = nops + 1
    /\ \E num_keys \in {0, BTREE_MAX_KEYS, BTREE_MAX_KEYS + 1, 255} :
          dev' = [disk_init EXCEPT !.bitmap[1] = TRUE,
                                   !.blocks[1] = ChainNodePage(num_keys)]
    /\ pres' = [call |-> "load_node_page", ret |-> "none", end |-> "return"]
    /\ UNCHANGED <<btVars, dbVars, panicked>>

\* Whether every block of the device holds a record page or zeroes
RecordDisk == \A b \in Blocks : "magic" \in DOMAIN dev.blocks[b]

\* page_read_record from any block of the loaded device
ChainReadRecord ==
    /\ pres.call # "none" /\ RecordDisk
    /\ ~panicked /\ pres.end = "return"
    /\ nops < MaxPageOps
    /\ nops' = nops + 1
    /\ \E block \in Blocks, io \in IoOutcomes :
          \E r \in page_read_record(dev, block, EncryptedRecord_new, io) :
              /\ panicked' = (r.end = "panic")
              /\ pres' = [call |-> "page_read_record",
                          ret |-> IF r.end = "return" THEN r.ret ELSE "none",
                          end |-> r.end, block |-> block, io |-> io]
    /\ UNCHANGED <<btVars, dbVars, dev>>

\* page_free_record_blocks from any block of the loaded device, no block of
\* which was freed before.  The call that frees a block twice walks a chain
\* that leads back into itself, and does not return.
ChainFreeRecordBlocks ==
    /\ pres.call # "none" /\ RecordDisk
    /\ ~panicked /\ pres.end = "return"
    /\ \A b \in Blocks : dev.bitmap[b]
    /\ nops < MaxPageOps
    /\ nops' = nops + 1
    /\ \E block \in Blocks, io \in IoOutcomes :
          \E r \in {page_free_record_blocks(dev, block, io)} :
              /\ dev' = r
              /\ pres' = [call |-> "page_free_record_blocks",
                          ret |-> "none",
                          end |-> IF r.double_free THEN "hang" ELSE "return",
                          block |-> block, io |-> io]
    /\ UNCHANGED <<btVars, dbVars, panicked>>

\* page_read_node on any block of the device loaded with a node page
ChainReadNode ==
    /\ pres.call # "none" /\ ~RecordDisk
    /\ ~panicked
    /\ nops < MaxPageOps
    /\ nops' = nops + 1
    /\ \E block \in Blocks, node \in CallerNodes, ok \in BOOLEAN :
          \E r \in {page_read_node(dev, block, node, 0, ok)} :
              /\ panicked' = r.panicked
              /\ pres' = [call |-> "page_read_node",
                          ret |-> IF r.panicked THEN "none" ELSE r.ret,
                          end |-> IF r.panicked THEN "panic" ELSE "return",
                          block |-> block, ok |-> ok, node |-> r.node]
    /\ UNCHANGED <<btVars, dbVars, dev>>

ChainNext ==
    \/ LoadRecordPages
    \/ LoadNodePage
    \/ ChainReadRecord
    \/ ChainFreeRecordBlocks
    \/ ChainReadNode

\* Reads and frees of pages on a device whose content the kernel did not
\* write.
SpecChain == Init /\ [][ChainNext]_vars

\* C38: page_read_record and page_free_record_blocks return for every disk
\* content and every starting block, a chain whose next_block pointers lead
\* back into itself included, and page_free_record_blocks frees no block
\* twice.
C38_ChainWalksEnd ==
    pres.call \in {"page_read_record", "page_free_record_blocks"}
        => pres.end # "hang" /\ ~dev.double_free

\* C39: page_read_node and page_read_record answer every block content with
\* a return code: a node page with a matching magic and checksum whose
\* num_keys is larger than BTREE_MAX_KEYS, and a record page whose
\* payload_len is larger than RECORD_PAGE_PAYLOAD, make neither of them
\* index outside the page's arrays and panic.
C39_PageReadsDoNotPanic ==
    pres.call \in {"page_read_node", "page_read_record"}
        => pres.end # "panic" /\ ~panicked

\* ------------------------------------------------------------------------
\* storage/page_io.rs: node and record pages written to one device
\* ------------------------------------------------------------------------

\* page_write_node on a device that holds nodes and records
CowWriteNode ==
    /\ ~dev.double_free
    /\ "nodes" \in DOMAIN pres \/ pres.call = "none"
    /\ nops < MaxCowOps
    /\ nops' = nops + 1
    /\ \E node \in NodeSamples, table_id \in NodeTableIds, ok \in BOOLEAN :
          \E r \in {page_write_node(dev, node, table_id, ok)} :
              /\ dev' = r.dev
              /\ pres' = [call |-> "page_write_node", ret |-> r.block,
                          held |-> {b \in Blocks : dev.bitmap[b]},
                          nodes |-> IF r.block # 0
                                    THEN (IF pres.call = "none" THEN {}
                                          ELSE pres.nodes) \cup {r.block}
                                    ELSE IF pres.call = "none" THEN {}
                                    ELSE pres.nodes,
                          records |-> pres.records]
    /\ UNCHANGED <<btVars, dbVars, panicked>>

\* page_write_record on a device that holds nodes and records
CowWriteRecord ==
    /\ ~dev.double_free
    /\ "nodes" \in DOMAIN pres \/ pres.call = "none"
    /\ nops < MaxCowOps
    /\ nops' = nops + 1
    /\ \E enc \in PageRecords, io \in IoOutcomes :
          \E r \in {page_write_record(dev, enc, io)} :
              /\ dev' = r.dev
              /\ pres' = [call |-> "page_write_record", ret |-> r.ret,
                          held |-> {b \in Blocks : dev.bitmap[b]},
                          nodes |-> IF pres.call = "none" THEN {}
                                    ELSE pres.nodes,
                          records |-> IF r.ret # 0
                                      THEN pres.records \cup {r.ret}
                                      ELSE pres.records]
    /\ UNCHANGED <<btVars, dbVars, panicked>>

\* page_free_record_blocks on the first block of a record written before
CowFreeRecordBlocks ==
    /\ ~dev.double_free
    /\ "nodes" \in DOMAIN pres
    /\ nops < MaxCowOps
    /\ nops' = nops + 1
    /\ \E block \in pres.records, io \in IoOutcomes :
          /\ dev' = page_free_record_blocks(dev, block, io)
          /\ pres' = [call |-> "page_free_record_blocks", ret |-> 0,
                      held |-> {b \in Blocks : dev.bitmap[b]},
                      nodes |-> pres.nodes,
                      records |-> pres.records \ {block}]
    /\ UNCHANGED <<btVars, dbVars, panicked>>

CowNext == CowWriteNode \/ CowWriteRecord \/ CowFreeRecordBlocks

\* Any sequence of node writes, record writes and record frees on a
\* formatted device.
SpecCow == Init /\ [][CowNext]_vars

\* The blocks whose content a step changes
Overwritten == {b \in Blocks : dev'.blocks[b] # dev.blocks[b]}

\* C40: page_write_node and page_write_record write only to blocks that
\* disk_alloc_block returned during the call: no block that was allocated
\* before the call, an earlier node page or record page, is overwritten.
C40_WritesOnlyToNewBlocks ==
    [][\A b \in Overwritten : ~dev.bitmap[b]]_vars

\* A write returned a block while earlier blocks held a node page and the
\* pages of a record.
C40_WroteBesideEarlierPages ==
    /\ pres.call \in {"page_write_node", "page_write_record"}
    /\ pres.ret # 0
    /\ pres.nodes \ {pres.ret} # {}
    /\ pres.records \ {pres.ret} # {}
    /\ pres.held # {}
    /\ pres.ret \notin pres.held

====
